---- MODULE Spec2Model ----
(***************************************************************************)
(* Model of the custom authentication service (src/src/lib/custom-auth.ts) *)
(* running against the tables of the initial schema migration.             *)
(*                                                                         *)
(* Every `await supabase...` of a handler is one atomic step of the        *)
(* calling process; steps of different calls interleave freely.  A store   *)
(* call resolves to {data, error} and never throws: a call that fails      *)
(* (constraint violation, or the store being unavailable: `ok = FALSE`)     *)
(* yields data = null and an error the handler sees only where it reads    *)
(* `error`.  An audit insert is part of the step that precedes it: the     *)
(* audit log is written but never read by the service.                     *)
(*                                                                         *)
(* The domain resolver (src/src/lib/domain-resolver.ts) is modelled the    *)
(* same way over the tables sites and site_domains and its two in-process  *)
(* maps; it shares the clock and the counters and has a specification of   *)
(* its own, ResolverSpec, in which the clock counts milliseconds.  So has  *)
(* the enforcement service (EnforcementService in custom-auth.ts, with the *)
(* SQL functions it calls): EnforceSpec, over the vendor and catalogue     *)
(* tables, in which the clock counts hours.  Its listing and billing       *)
(* operations and enforceProductVisibility run under ListingSpec,          *)
(* validatePromotion under PromoSpec and trackPromoUsage under UsageSpec,  *)
(* each from the stores the operation can meet; RedeemSpec runs two        *)
(* callers that validate a promotion and then track its use.  SignedUpSpec *)
(* runs the session operations of the auth service from the store a signup *)
(* leaves, one session lifetime later.                                     *)
(***************************************************************************)
EXTENDS Integers, Sequences, FiniteSets, TLC

\* ---------------------------------------------------------------- bounds
NumProcs == 2          \* concurrent callers of the service
MaxTokens == 2         \* distinct values generateToken() can return
MaxCalls == 3          \* calls of the service in one behaviour
MaxEvents == 1         \* events from outside in one behaviour: a store call
                       \* that fails, an advance of the clock, an operator's write

\* ---------------------------------------------------------- program data
SESSION_DURATION_HOURS == 24 * 7

Procs == 1..NumProcs
Tokens == 1..MaxTokens
NoToken == 0
NoId == 0

\* e-mail addresses are sequences of characters
Emails == { <<"a", "@", "x">>, <<"A", "@", "X">> }
NoTime == -1

\* DomainResolver.CACHE_TTL, in milliseconds
CACHE_TTL == 5 * 60 * 1000

\* host names are sequences of characters
BaseDomains == { <<"s", ".", "x">> }
Ports == { <<"8", "0">> }
UpperChar(c) ==
    CASE c = "s" -> "S"
      [] c = "x" -> "X"
      [] OTHER -> c
MixedCase(d) == [i \in 1..Len(d) |-> UpperChar(d[i])]
WithPort(d, port) == d \o <<":">> \o port
\* what callers pass to the resolver: a registered name, the same name in
\* capitals with a port, and a name that ends in a colon without a port
Hosts ==
    BaseDomains
        \cup { WithPort(MixedCase(d), port) : d \in BaseDomains, port \in Ports }
        \cup { d \o <<":">> : d \in BaseDomains }
SiteRows == { [ id |-> 1, name |-> "Site one", slug |-> "one" ] }
DomainStatuses == { "active", "pending", "disabled" }

\* the vendor and catalogue rows a store can start with
VendorIds == { 1 }
SiteIds == { 1 }
VendorStatuses == { "approved", "suspended" }

\* promotions and the arguments of their calls; a nullable column is a set
\* with at most one element, {} for null; amounts are in cents, the scale
\* of decimal(12,2)
PromoIds == { 1, 2 }
PromoStatuses == { "active", "paused" }

VARIABLES
    auth_users,             \* set of rows [id, email, status]
    auth_credentials,       \* set of rows [user_id, password_hash, password_salt, failed_attempts, locked_until]
    auth_sessions,          \* set of rows [user_id, token, expires_at, last_activity_at, revoked, revoked_at, revoked_reason]
    auth_role_assignments,  \* set of rows [id, user_id, role, is_current, revoked]
    user_profiles,          \* set of rows [id, role]
    auth_audit_log,         \* set of rows [event_type, user_id, reason]
    now,                    \* the clock read by new Date()
    calls,                  \* calls of the service started so far
    events,                 \* events from outside so far
    proc,                   \* per caller: the call in progress and its locals
    sites,                  \* set of rows [id, name, slug]
    site_domains,           \* set of rows [site_id, domain, is_primary, status]
    cache,                  \* DomainResolver.cache: entries [key, value: ResolvedSite]
    cacheExpiry,            \* DomainResolver.cacheExpiry: entries [key, value: time]
    res,                    \* per caller: the resolver call in progress
    vendors,                \* set of rows [id, status]
    vendor_subscriptions,   \* set of rows [id, vendor_id, status, billing_period_end]
    vendor_agreements,      \* set of rows [id, vendor_id, status]
    products,               \* set of rows [id, vendor_id, status, enforce_site_visibility]
    site_product_visibility,\* set of rows [site_id, product_id, visible]
    promotions,             \* set of rows [id, vendor_id, site_id, status, starts_at, ends_at, allowed_roles, usage_limit, usage_count, total_discount_given, total_vendor_cost]
    promo_usage,            \* set of rows [id, promo_id, order_id, user_id, discount_amount, vendor_cost]
    enf                     \* per caller: the enforcement call in progress

tables == << auth_users, auth_credentials, auth_sessions,
             auth_role_assignments, user_profiles, auth_audit_log >>
resolverVars == << sites, site_domains, cache, cacheExpiry, res >>
vendorTables == << vendors, vendor_subscriptions, vendor_agreements >>
catalogTables == << products, site_product_visibility >>
promoTables == << promotions, promo_usage >>
enforceVars == << vendorTables, catalogTables, promoTables, enf >>
vars == << auth_users, auth_credentials, auth_sessions,
           auth_role_assignments, user_profiles, auth_audit_log,
           now, calls, events, proc, resolverVars, enforceVars >>

\* ------------------------------------------------------- pure functions
\* String.prototype.toLowerCase on one character
LowerChar(c) ==
    CASE c = "A" -> "a"
      [] c = "B" -> "b"
      [] c = "S" -> "s"
      [] c = "X" -> "x"
      [] OTHER -> c

\* String.prototype.toLowerCase
toLowerCase(e) == [i \in 1..Len(e) |-> LowerChar(e[i])]

\* digest of the concatenation password + salt
hashPassword(password, salt) == << "sha256", password \o salt >>

\* ------------------------------------------------------------ the caller
IdleProc ==
    [ pc |-> "idle", op |-> "none",
      email |-> << >>, password |-> "", token |-> NoToken,
      userId |-> NoId, newRole |-> "",
      user |-> {}, cred |-> {}, session |-> {},
      passwordHash |-> << >>, locked |-> FALSE,
      created |-> NoToken, hadRole |-> FALSE, inserted |-> FALSE,
      sawChange |-> FALSE,
      ret |-> "none", retUser |-> NoId, retRole |-> "", retSession |-> NoToken,
      nfault |-> 0, naudit |-> 0, afault |-> 0, cause |-> "" ]

\* the locals of a call of resolveSiteFromDomain
IdleRes ==
    [ pc |-> "idle", input |-> << >>, viaHost |-> FALSE,
      normalizedDomain |-> << >>, data |-> NoId,
      siteData |-> {}, domainData |-> {},
      hit |-> FALSE, expired |-> FALSE, looked |-> FALSE, cleared |-> FALSE,
      ret |-> "none", site |-> {}, nfault |-> 0 ]

\* no identity yet, no call in progress
AuthInit ==
    /\ auth_users = {}
    /\ auth_credentials = {}
    /\ auth_sessions = {}
    /\ auth_role_assignments = {}
    /\ user_profiles = {}
    /\ auth_audit_log = {}
    /\ now = 0
    /\ calls = 0
    /\ events = 0
    /\ proc = [p \in Procs |-> IdleProc]

\* new Map() twice, no resolver call in progress
ResolverIdle ==
    /\ cache = {}
    /\ cacheExpiry = {}
    /\ res = [p \in Procs |-> IdleRes]

\* no site and no domain yet
ResolverEmpty ==
    /\ sites = {}
    /\ site_domains = {}
    /\ ResolverIdle

\* the locals of a call of the enforcement service
IdleEnf ==
    [ pc |-> "idle", op |-> "none",
      vendorId |-> NoId, productId |-> NoId, siteId |-> NoId,
      data |-> "null", vendor |-> {}, subscription |-> {}, agreement |-> {},
      visible |-> "null", product |-> {},
      canGoLive |-> FALSE, isApproved |-> FALSE,
      hasActiveSubscription |-> FALSE, hasSignedAgreement |-> FALSE,
      blockers |-> << >>,
      isVisible |-> FALSE, reason |-> << >>,
      limit |-> 0, productIds |-> {}, rows |-> << >>, visibleProducts |-> << >>,
      promoId |-> NoId, userRole |-> "", promo |-> {}, errors |-> << >>,
      isValid |-> FALSE, canBeUsed |-> FALSE,
      orderId |-> NoId, userId |-> NoId, amount |-> 0, ret |-> "none",
      nfault |-> 0, began |-> 0 ]

\* no vendor and no product yet, no enforcement call in progress
EnforceEmpty ==
    /\ vendors = {}
    /\ vendor_subscriptions = {}
    /\ vendor_agreements = {}
    /\ products = {}
    /\ site_product_visibility = {}
    /\ promotions = {}
    /\ promo_usage = {}
    /\ enf = [p \in Procs |-> IdleEnf]

Init ==
    /\ AuthInit
    /\ ResolverEmpty
    /\ EnforceEmpty

\* ------------------------------------------------------- store behaviour
\* auth_users.email is UNIQUE
UserInsertAccepted(email) == ~ \E u \in auth_users : u.email = email

\* auth_credentials.user_id is UNIQUE and references auth_users
CredInsertAccepted(uid) ==
    /\ \E u \in auth_users : u.id = uid
    /\ ~ \E c \in auth_credentials : c.user_id = uid

\* rows the partial unique index idx_auth_role_current covers
CurrentRoles(uid) ==
    { r \in auth_role_assignments :
        r.user_id = uid /\ r.is_current /\ ~ r.revoked }

\* the ledger without the partial unique index
RoleInsertAccepted_NoIndex(uid) == \E u \in auth_users : u.id = uid

\* auth_role_assignments.user_id references auth_users; the partial unique
\* index admits one row with is_current = true and revoked = false per user
RoleInsertAccepted(uid) ==
    /\ \E u \in auth_users : u.id = uid
    /\ CurrentRoles(uid) = {}

\* user_profiles.id is the primary key
ProfileInsertAccepted(uid) == ~ \E f \in user_profiles : f.id = uid

\* auth_sessions.token is UNIQUE, user_id references auth_users
SessionInsertAccepted(uid, token) ==
    /\ \E u \in auth_users : u.id = uid
    /\ ~ \E s \in auth_sessions : s.token = token

\* .maybeSingle(): the row if exactly one matches, else null
maybeSingle(rows) == IF Cardinality(rows) = 1 THEN rows ELSE {}

\* gen_random_uuid() for a new row of a table that never loses rows
NewId(table) == Cardinality(table) + 1

AuditRow(type, uid, reason) ==
    [ event_type |-> type, user_id |-> uid, reason |-> reason ]

\* auth_audit_log.user_id is null or references auth_users
AuditInsertAccepted(uid) == uid = NoId \/ \E u \in auth_users : u.id = uid

\* an audit insert whose failure is not swallowed: the operation does not
\* go on as if the insert had succeeded
logAuditEvent_Propagates(aok, type, uid, reason) ==
    /\ aok
    /\ auth_audit_log' =
           IF AuditInsertAccepted(uid)
              THEN auth_audit_log \cup { AuditRow(type, uid, reason) }
              ELSE auth_audit_log

\* logAuditEvent: the insert may fail, the failure is swallowed
logAuditEvent(aok, type, uid, reason) ==
    auth_audit_log' =
        IF aok /\ AuditInsertAccepted(uid)
           THEN auth_audit_log \cup { AuditRow(type, uid, reason) }
           ELSE auth_audit_log

\* outcomes of one store call: it is answered, or (while the budget lasts)
\* fails for a reason outside the model
Answers == IF events < MaxEvents THEN BOOLEAN ELSE { TRUE }
Cost(ok) == IF ok THEN 0 ELSE 1

\* the locals of a call that has awaited logAuditEvent, answered or not
Audited(r, aok) ==
    [r EXCEPT !.naudit = @ + 1, !.afault = @ + Cost(aok), !.nfault = @ + Cost(aok)]

\* a caller that is not inside a call
Free(p) == proc[p].pc \in { "idle", "done" }

\* process p moves to r; the counters follow
Set(p, r) ==
    LET failed == r.nfault - (IF Free(p) THEN 0 ELSE proc[p].nfault)
    IN  /\ failed <= MaxEvents - events
        /\ proc' = [proc EXCEPT ![p] = r]
        /\ events' = events + failed
        /\ calls' = IF Free(p) THEN calls + 1 ELSE calls
        /\ UNCHANGED << resolverVars, enforceVars >>

\* the call returns null / false
Fail(r, value) == [r EXCEPT !.pc = "done", !.ret = value]

\* what made signup or login fail: the error thrown ('User already exists',
\* an error of the store) or the reason audited with login_failed
Because(r, cause) == [r EXCEPT !.cause = cause]

\* ---------------------------------------------------------------- signup
\* signup(data) is called:
\* select id from auth_users where email = lower(email); throw if found
SignupCheck(p) ==
    /\ Free(p)
    /\ calls < MaxCalls
    /\ \E e \in Emails, pw \in { "pw1" }, ok \in Answers :
         LET existingUser ==
                 IF ok THEN maybeSingle({ u \in auth_users :
                                u.email = toLowerCase(e) })
                       ELSE {}
             r == [IdleProc EXCEPT !.op = "signup", !.email = e,
                                   !.password = pw, !.nfault = Cost(ok)]
         IN  IF existingUser /= {}
                THEN Set(p, Fail(Because(r, "AlreadyExists"), "null"))
                ELSE Set(p, [r EXCEPT !.pc = "signup_user"])
    /\ UNCHANGED << tables, now >>

\* the identity stored with the e-mail as typed
NewUserRow_AsTyped(email) ==
    [ id |-> NewId(auth_users), email |-> email, status |-> "active" ]

\* the row signup inserts into auth_users
NewUserRow(email) ==
    [ id |-> NewId(auth_users), email |-> toLowerCase(email), status |-> "active" ]

\* insert into auth_users; throw on error
SignupInsertUser(p) ==
    /\ proc[p].pc = "signup_user"
    /\ \E ok \in Answers :
         LET row == NewUserRow(proc[p].email)
             r == [proc[p] EXCEPT !.nfault = @ + Cost(ok)]
         IN  IF ok /\ UserInsertAccepted(row.email)
                THEN /\ auth_users' = auth_users \cup { row }
                     /\ Set(p, [r EXCEPT !.pc = "signup_cred", !.user = { row }])
                ELSE /\ auth_users' = auth_users
                     /\ Set(p, Fail(Because(r, "StoreError"), "null"))
    /\ UNCHANGED << auth_credentials, auth_sessions, auth_role_assignments,
                    user_profiles, auth_audit_log, now >>

\* generateSalt, hashPassword, insert into auth_credentials; throw on error
SignupInsertCred(p) ==
    /\ proc[p].pc = "signup_cred"
    /\ \E ok \in Answers, salt \in { "s1" } :
         LET newUser == CHOOSE u \in proc[p].user : TRUE
             row == [ user_id |-> newUser.id,
                      password_hash |-> hashPassword(proc[p].password, salt),
                      password_salt |-> salt,
                      failed_attempts |-> 0,
                      locked_until |-> NoTime ]
             r == [proc[p] EXCEPT !.nfault = @ + Cost(ok)]
         IN  IF ok /\ CredInsertAccepted(newUser.id)
                THEN /\ auth_credentials' = auth_credentials \cup { row }
                     /\ Set(p, [r EXCEPT !.pc = "signup_role"])
                ELSE /\ auth_credentials' = auth_credentials
                     /\ Set(p, Fail(Because(r, "StoreError"), "null"))
    /\ UNCHANGED << auth_users, auth_sessions, auth_role_assignments,
                    user_profiles, auth_audit_log, now >>

\* a new ledger row: is_current as given, revoked by default false
RoleRow(uid, role) ==
    [ id |-> NewId(auth_role_assignments), user_id |-> uid, role |-> role,
      is_current |-> TRUE, revoked |-> FALSE ]

\* insert the default role 'retail'; throw on error
SignupInsertRole(p) ==
    /\ proc[p].pc = "signup_role"
    /\ \E ok \in Answers :
         LET newUser == CHOOSE u \in proc[p].user : TRUE
             r == [proc[p] EXCEPT !.nfault = @ + Cost(ok)]
         IN  IF ok /\ RoleInsertAccepted(newUser.id)
                THEN /\ auth_role_assignments' =
                            auth_role_assignments \cup { RoleRow(newUser.id, "retail") }
                     /\ Set(p, [r EXCEPT !.pc = "signup_profile"])
                ELSE /\ auth_role_assignments' = auth_role_assignments
                     /\ Set(p, Fail(Because(r, "StoreError"), "null"))
    /\ UNCHANGED << auth_users, auth_credentials, auth_sessions,
                    user_profiles, auth_audit_log, now >>

\* insert into user_profiles; throw on error; then audit 'signup'
SignupInsertProfile(p) ==
    /\ proc[p].pc = "signup_profile"
    /\ \E ok \in Answers, aok \in Answers :
         LET newUser == CHOOSE u \in proc[p].user : TRUE
             r == [proc[p] EXCEPT !.nfault = @ + Cost(ok)]
         IN  IF ok /\ ProfileInsertAccepted(newUser.id)
                THEN /\ user_profiles' =
                            user_profiles \cup { [ id |-> newUser.id, role |-> "retail" ] }
                     /\ logAuditEvent(aok, "signup", newUser.id, "")
                     /\ Set(p, Audited([r EXCEPT !.pc = "signup_session"], aok))
                ELSE /\ UNCHANGED << user_profiles, auth_audit_log >>
                     /\ Set(p, Fail(Because(r, "StoreError"), "null"))
    /\ UNCHANGED << auth_users, auth_credentials, auth_sessions,
                    auth_role_assignments, now >>

\* the row createSession inserts: expiry = now + SESSION_DURATION_HOURS
SessionRow(uid, token) ==
    [ user_id |-> uid, token |-> token,
      expires_at |-> now + SESSION_DURATION_HOURS,
      last_activity_at |-> now,
      revoked |-> FALSE, revoked_at |-> NoTime, revoked_reason |-> "" ]

\* createSession(userId) followed by the caller's return statement:
\* generateToken, insert into auth_sessions; on error createSession returns
\* null (no audit), else it audits 'session_created'.  The caller returns
\* { user, session: session! } either way.
createSession(p, role) ==
    \E ok \in Answers, aok \in Answers, token \in Tokens :
        LET user == CHOOSE u \in proc[p].user : TRUE
            accepted == ok /\ SessionInsertAccepted(user.id, token)
            tried == [proc[p] EXCEPT !.nfault = @ + Cost(ok)]
            r == IF accepted THEN Audited(tried, aok) ELSE tried
        IN  /\ IF accepted
                  THEN /\ auth_sessions' =
                              auth_sessions \cup { SessionRow(user.id, token) }
                       /\ logAuditEvent(aok, "session_created", user.id, "")
                  ELSE UNCHANGED << auth_sessions, auth_audit_log >>
            /\ Set(p, [r EXCEPT !.pc = "done", !.ret = "value",
                                !.retUser = user.id, !.retRole = role,
                                !.retSession = IF accepted THEN token ELSE NoToken,
                                !.created = IF accepted THEN token ELSE NoToken])

\* const session = await this.createSession(newUser.id); return {...}
SignupSession(p) ==
    /\ proc[p].pc = "signup_session"
    /\ createSession(p, "retail")
    /\ UNCHANGED << auth_users, auth_credentials, auth_role_assignments,
                    user_profiles, now >>

\* ----------------------------------------------------------------- login
\* a lookup of the identity that does not filter on its status
IsActive_Any(u) == u.status \in { "active", "suspended", "deleted" }

\* .eq('status', 'active')
IsActive(u) == u.status = "active"

\* login(credentials) is called:
\* select * from auth_users where email = lower(email) and status = 'active'
LoginUser(p) ==
    /\ Free(p)
    /\ calls < MaxCalls
    /\ \E e \in Emails, pw \in { "pw1", "wrong" }, ok \in Answers, aok \in Answers :
         LET user == IF ok THEN maybeSingle({ u \in auth_users :
                                    /\ u.email = toLowerCase(e)
                                    /\ IsActive(u) })
                           ELSE {}
             r == [IdleProc EXCEPT !.op = "login", !.email = e,
                                   !.password = pw, !.nfault = Cost(ok)]
         IN  IF user = {}
                THEN /\ logAuditEvent(aok, "login_failed", NoId, "user_not_found")
                     /\ Set(p, Fail(Because(Audited(r, aok), "InvalidCredentials"),
                                     "null"))
                ELSE /\ UNCHANGED auth_audit_log
                     /\ Set(p, [r EXCEPT !.pc = "login_cred", !.user = user])
    /\ UNCHANGED << auth_users, auth_credentials, auth_sessions,
                    auth_role_assignments, user_profiles, now >>

\* the lock taken to hold once locked_until has passed
IsLocked_Reversed(cred) == cred.locked_until /= NoTime /\ cred.locked_until < now

\* cred.locked_until && new Date(cred.locked_until) > new Date()
IsLocked(cred) == cred.locked_until /= NoTime /\ cred.locked_until > now

\* select the credential; return null without one; fail as locked while
\* locked_until is in the future; else hash the password with the stored salt
LoginCred(p) ==
    /\ proc[p].pc = "login_cred"
    /\ \E ok \in Answers, aok \in Answers :
         LET user == CHOOSE u \in proc[p].user : TRUE
             found == IF ok THEN maybeSingle({ c \in auth_credentials :
                                     c.user_id = user.id })
                            ELSE {}
             r == [proc[p] EXCEPT !.nfault = @ + Cost(ok), !.cred = found]
         IN  IF found = {}
                THEN /\ UNCHANGED auth_audit_log
                     /\ Set(p, Fail(Because(r, "InvalidCredentials"), "null"))
                ELSE LET cred == CHOOSE c \in found : TRUE
                     IN  IF IsLocked(cred)
                            THEN /\ logAuditEvent(aok, "login_failed", user.id, "account_locked")
                                 /\ Set(p, Fail(Because(Audited([r EXCEPT !.locked = TRUE], aok),
                                                         "AccountLocked"), "null"))
                            ELSE LET h == hashPassword(proc[p].password, cred.password_salt)
                                 IN  /\ UNCHANGED auth_audit_log
                                     /\ Set(p, [r EXCEPT
                                            !.passwordHash = h,
                                            !.pc = IF h /= cred.password_hash
                                                      THEN "login_wrong"
                                                      ELSE "login_reset"])
    /\ UNCHANGED << auth_users, auth_credentials, auth_sessions,
                    auth_role_assignments, user_profiles, now >>

\* an update that locks the credential when it counts a miss
UpdateFailedAttempts_AlsoLocks(cred, value) ==
    { IF c.user_id = cred.user_id
         THEN [c EXCEPT !.failed_attempts = value,
                        !.locked_until = IF value > 0 THEN now + SESSION_DURATION_HOURS
                                                      ELSE @]
         ELSE c : c \in auth_credentials }

\* update auth_credentials set failed_attempts = <value> where id = cred.id
UpdateFailedAttempts(cred, value) ==
    { IF c.user_id = cred.user_id THEN [c EXCEPT !.failed_attempts = value] ELSE c :
        c \in auth_credentials }

\* a miss that writes the counter back as it was read
FailedAttemptsAfterMiss_Unchanged(cred) == cred.failed_attempts

\* failed_attempts: cred.failed_attempts + 1, from the row read before
FailedAttemptsAfterMiss(cred) == cred.failed_attempts + 1

\* wrong password: count the miss, audit login_failed, return null
LoginWrong(p) ==
    /\ proc[p].pc = "login_wrong"
    /\ \E ok \in Answers, aok \in Answers :
         LET cred == CHOOSE c \in proc[p].cred : TRUE
         IN  /\ auth_credentials' =
                    IF ok THEN UpdateFailedAttempts(cred, FailedAttemptsAfterMiss(cred))
                          ELSE auth_credentials
             /\ logAuditEvent(aok, "login_failed", cred.user_id, "invalid_password")
             /\ Set(p, Fail(Because(Audited([proc[p] EXCEPT !.nfault = @ + Cost(ok)], aok),
                                     "InvalidCredentials"), "null"))
    /\ UNCHANGED << auth_users, auth_sessions, auth_role_assignments,
                    user_profiles, now >>

\* right password: failed_attempts := 0, then last_login_at and login_count
\* of the identity (columns the model does not carry)
LoginReset(p) ==
    /\ proc[p].pc = "login_reset"
    /\ \E ok \in Answers :
         LET cred == CHOOSE c \in proc[p].cred : TRUE
         IN  /\ auth_credentials' =
                    IF ok THEN UpdateFailedAttempts(cred, 0) ELSE auth_credentials
             /\ Set(p, [proc[p] EXCEPT !.pc = "login_role", !.nfault = @ + Cost(ok)])
    /\ UNCHANGED << auth_users, auth_sessions, auth_role_assignments,
                    user_profiles, auth_audit_log, now >>

\* select role where user_id, is_current, not revoked; 'guest' without a row
currentRole(ok, uid) ==
    LET found == IF ok THEN maybeSingle(CurrentRoles(uid)) ELSE {}
    IN  IF found = {} THEN "guest" ELSE (CHOOSE r \in found : TRUE).role

\* a role change for uid that found a current role and is between its
\* revoke and its insert
ChangeInProgress(uid) ==
    \E q \in Procs : /\ proc[q].op = "changeRole"
                     /\ proc[q].pc = "change_insert"
                     /\ proc[q].userId = uid
                     /\ proc[q].hadRole

\* resolve the role, audit 'login'
LoginRole(p) ==
    /\ proc[p].pc = "login_role"
    /\ \E ok \in Answers, aok \in Answers :
         LET user == CHOOSE u \in proc[p].user : TRUE
             role == currentRole(ok, user.id)
         IN  /\ logAuditEvent(aok, "login", user.id, "")
             /\ Set(p, Audited([proc[p] EXCEPT
                           !.pc = "login_session", !.retRole = role,
                           !.sawChange = ok /\ role = "guest" /\ ChangeInProgress(user.id),
                           !.nfault = @ + Cost(ok)], aok))
    /\ UNCHANGED << auth_users, auth_credentials, auth_sessions,
                    auth_role_assignments, user_profiles, now >>

\* const session = await this.createSession(user.id); return {...}
LoginSession(p) ==
    /\ proc[p].pc = "login_session"
    /\ createSession(p, proc[p].retRole)
    /\ UNCHANGED << auth_users, auth_credentials, auth_role_assignments,
                    user_profiles, now >>

\* ---------------------------------------------------------------- logout
\* logout(token) is called:
\* select user_id from auth_sessions where token = token; false if absent
LogoutFind(p) ==
    /\ Free(p)
    /\ calls < MaxCalls
    /\ \E t \in Tokens, ok \in Answers :
         LET session == IF ok THEN maybeSingle({ s \in auth_sessions : s.token = t })
                              ELSE {}
             r == [IdleProc EXCEPT !.op = "logout", !.token = t,
                                   !.nfault = Cost(ok), !.session = session]
         IN  IF session = {}
                THEN Set(p, Fail(r, "false"))
                ELSE Set(p, [r EXCEPT !.pc = "logout_revoke"])
    /\ UNCHANGED << tables, now >>

\* a revocation that stamps the session but leaves revoked unset
RevokeSessions_FlagForgotten(token) ==
    { IF s.token = token
         THEN [s EXCEPT !.revoked_at = now, !.revoked_reason = "User logout"]
         ELSE s : s \in auth_sessions }

\* update auth_sessions set revoked = true, revoked_at = now,
\* revoked_reason = 'User logout' where token = token
RevokeSessions(token) ==
    { IF s.token = token
         THEN [s EXCEPT !.revoked = TRUE, !.revoked_at = now,
                        !.revoked_reason = "User logout"]
         ELSE s : s \in auth_sessions }

\* revoke (the result of the update is not read), audit 'logout', return true
LogoutRevoke(p) ==
    /\ proc[p].pc = "logout_revoke"
    /\ \E ok \in Answers, aok \in Answers :
         LET session == CHOOSE s \in proc[p].session : TRUE
         IN  /\ auth_sessions' =
                    IF ok THEN RevokeSessions(proc[p].token) ELSE auth_sessions
             /\ logAuditEvent(aok, "logout", session.user_id, "")
             /\ Set(p, Audited([proc[p] EXCEPT !.pc = "done", !.ret = "true",
                                                !.nfault = @ + Cost(ok)], aok))
    /\ UNCHANGED << auth_users, auth_credentials, auth_role_assignments,
                    user_profiles, now >>

\* ------------------------------------------------------- validateSession
\* the comparison of the expiry turned around
IsExpired_Reversed(session) == session.expires_at > now

\* new Date(session.expires_at) < new Date()
IsExpired(session) == session.expires_at < now

\* validateSession(token) is called:
\* select * from auth_sessions where token = token and revoked = false;
\* null if absent or expired
ValidateFind(p) ==
    /\ Free(p)
    /\ calls < MaxCalls
    /\ \E t \in Tokens, ok \in Answers :
         LET found == IF ok THEN maybeSingle({ s \in auth_sessions :
                                     s.token = t /\ ~ s.revoked })
                            ELSE {}
             r == [IdleProc EXCEPT !.op = "validateSession", !.token = t,
                                   !.nfault = Cost(ok), !.session = found]
         IN  IF found = {}
                THEN Set(p, Fail(r, "null"))
                ELSE IF IsExpired(CHOOSE s \in found : TRUE)
                        THEN Set(p, Fail(r, "null"))
                        ELSE Set(p, [r EXCEPT !.pc = "validate_touch"])
    /\ UNCHANGED << tables, now >>

\* a use of the session that also renews its expiry
TouchSession_Sliding(token) ==
    { IF s.token = token
         THEN [s EXCEPT !.last_activity_at = now,
                        !.expires_at = now + SESSION_DURATION_HOURS]
         ELSE s : s \in auth_sessions }

\* update auth_sessions set last_activity_at = now where id = session.id
TouchSession(token) ==
    { IF s.token = token THEN [s EXCEPT !.last_activity_at = now] ELSE s :
        s \in auth_sessions }

ValidateTouch(p) ==
    /\ proc[p].pc = "validate_touch"
    /\ \E ok \in Answers :
         /\ auth_sessions' =
                IF ok THEN TouchSession(proc[p].token) ELSE auth_sessions
         /\ Set(p, [proc[p] EXCEPT !.pc = "validate_user", !.nfault = @ + Cost(ok)])
    /\ UNCHANGED << auth_users, auth_credentials, auth_role_assignments,
                    user_profiles, auth_audit_log, now >>

\* select * from auth_users where id = session.user_id and status = 'active'
ValidateUser(p) ==
    /\ proc[p].pc = "validate_user"
    /\ \E ok \in Answers :
         LET session == CHOOSE s \in proc[p].session : TRUE
             user == IF ok THEN maybeSingle({ u \in auth_users :
                                    u.id = session.user_id /\ IsActive(u) })
                           ELSE {}
             r == [proc[p] EXCEPT !.nfault = @ + Cost(ok), !.user = user]
         IN  IF user = {}
                THEN Set(p, Fail(r, "null"))
                ELSE Set(p, [r EXCEPT !.pc = "validate_role"])
    /\ UNCHANGED << tables, now >>

\* resolve the role, return the identity
ValidateRole(p) ==
    /\ proc[p].pc = "validate_role"
    /\ \E ok \in Answers :
         LET user == CHOOSE u \in proc[p].user : TRUE
             role == currentRole(ok, user.id)
         IN  Set(p, [proc[p] EXCEPT !.pc = "done", !.ret = "value",
                        !.retUser = user.id, !.retRole = role,
                        !.sawChange = ok /\ role = "guest" /\ ChangeInProgress(user.id),
                        !.nfault = @ + Cost(ok)])
    /\ UNCHANGED << tables, now >>

\* ------------------------------------------------------------ changeRole
UserIds == 1..Cardinality({ toLowerCase(e) : e \in Emails })

\* update auth_role_assignments set is_current = false, revoked = true
\* where user_id = userId and is_current = true
RevokeCurrent(uid) ==
    { IF r.user_id = uid /\ r.is_current
         THEN [r EXCEPT !.is_current = FALSE, !.revoked = TRUE]
         ELSE r : r \in auth_role_assignments }

\* changeRole(userId, newRole, performedBy) is called: revoke the current row
ChangeRevoke(p) ==
    /\ Free(p)
    /\ calls < MaxCalls
    /\ \E uid \in UserIds, role \in { "vip", "admin" }, ok \in Answers :
         /\ auth_role_assignments' =
                IF ok THEN RevokeCurrent(uid) ELSE auth_role_assignments
         /\ Set(p, [IdleProc EXCEPT !.pc = "change_insert", !.op = "changeRole",
                                    !.userId = uid, !.newRole = role,
                                    !.hadRole = CurrentRoles(uid) /= {},
                                    !.nfault = Cost(ok)])
    /\ UNCHANGED << auth_users, auth_credentials, auth_sessions,
                    user_profiles, auth_audit_log, now >>

\* insert the new current row (the result of the insert is not read)
ChangeInsert(p) ==
    /\ proc[p].pc = "change_insert"
    /\ \E ok \in Answers :
         LET accepted == ok /\ RoleInsertAccepted(proc[p].userId)
         IN  /\ auth_role_assignments' =
                    IF accepted
                       THEN auth_role_assignments
                                \cup { RoleRow(proc[p].userId, proc[p].newRole) }
                       ELSE auth_role_assignments
             /\ Set(p, [proc[p] EXCEPT !.pc = "change_profile",
                                       !.inserted = accepted,
                                       !.nfault = @ + Cost(ok)])
    /\ UNCHANGED << auth_users, auth_credentials, auth_sessions,
                    user_profiles, auth_audit_log, now >>

\* update user_profiles set role = newRole where id = userId
UpdateProfileRole(uid, role) ==
    { IF f.id = uid THEN [f EXCEPT !.role = role] ELSE f : f \in user_profiles }

\* update the profile, audit 'role_changed', return true
ChangeProfile(p) ==
    /\ proc[p].pc = "change_profile"
    /\ \E ok \in Answers, aok \in Answers :
         /\ user_profiles' =
                IF ok THEN UpdateProfileRole(proc[p].userId, proc[p].newRole)
                      ELSE user_profiles
         /\ logAuditEvent(aok, "role_changed", proc[p].userId, proc[p].newRole)
         /\ Set(p, Audited([proc[p] EXCEPT !.pc = "done", !.ret = "true",
                                            !.nfault = @ + Cost(ok)], aok))
    /\ UNCHANGED << auth_users, auth_credentials, auth_sessions,
                    auth_role_assignments, now >>

\* ------------------------------------------------- writers outside the service
\* auth_credentials.locked_until is written by no handler of the service;
\* an operator locks a credential for one hour
LockCredential ==
    /\ events < MaxEvents
    /\ events' = events + 1
    /\ \E c \in auth_credentials :
         /\ c.locked_until = NoTime
         /\ auth_credentials' =
                (auth_credentials \ { c }) \cup { [c EXCEPT !.locked_until = now + SESSION_DURATION_HOURS] }
    /\ UNCHANGED << auth_users, auth_sessions, auth_role_assignments,
                    user_profiles, auth_audit_log, now, calls, proc,
                    resolverVars, enforceVars >>

\* auth_users.status is written by no handler of the service; an operator
\* suspends, deletes or reactivates an identity
SetUserStatus ==
    /\ events < MaxEvents
    /\ events' = events + 1
    /\ \E u \in auth_users, st \in { "active", "suspended", "deleted" } :
         /\ st /= u.status
         /\ auth_users' = (auth_users \ { u }) \cup { [u EXCEPT !.status = st] }
    /\ UNCHANGED << auth_credentials, auth_sessions, auth_role_assignments,
                    user_profiles, auth_audit_log, now, calls, proc,
                    resolverVars, enforceVars >>

\* ------------------------------------------------------------ the clock
Tick ==
    /\ events < MaxEvents
    /\ \E d \in { SESSION_DURATION_HOURS, SESSION_DURATION_HOURS + 1 } : now' = now + d
    /\ events' = events + 1
    /\ UNCHANGED << tables, calls, proc, resolverVars, enforceVars >>

\* one step of a call of process p
Call(p) ==
    \/ SignupCheck(p)
    \/ SignupInsertUser(p)
    \/ SignupInsertCred(p)
    \/ SignupInsertRole(p)
    \/ SignupInsertProfile(p)
    \/ SignupSession(p)
    \/ LoginUser(p)
    \/ LoginCred(p)
    \/ LoginWrong(p)
    \/ LoginReset(p)
    \/ LoginRole(p)
    \/ LoginSession(p)
    \/ LogoutFind(p)
    \/ LogoutRevoke(p)
    \/ ValidateFind(p)
    \/ ValidateTouch(p)
    \/ ValidateUser(p)
    \/ ValidateRole(p)
    \/ ChangeRevoke(p)
    \/ ChangeInsert(p)
    \/ ChangeProfile(p)

\* a step outside the service
Env ==
    \/ LockCredential
    \/ SetUserStatus
    \/ Tick

\* one caller, a call starting when the previous one has returned, while
\* the clock advances and operators act
Next ==
    \/ Call(1)
    \/ Env

Spec == Init /\ [][Next]_vars

\* the calls of several callers overlap, at one instant of the clock
ConcSpec == Init /\ [][\E p \in Procs : Call(p)]_vars

\* the store one session lifetime after signup({ email: 'a@x', password:
\* 'pw1' }) ran on the empty store: the session is at its expiry instant,
\* not yet past it, and was last used when it was created
SignedUpInit ==
    /\ auth_users = { [ id |-> 1, email |-> << "a", "@", "x" >>,
                        status |-> "active" ] }
    /\ auth_credentials = { [ user_id |-> 1,
                              password_hash |-> hashPassword("pw1", "s1"),
                              password_salt |-> "s1",
                              failed_attempts |-> 0,
                              locked_until |-> NoTime ] }
    /\ auth_sessions = { [ user_id |-> 1, token |-> 1,
                           expires_at |-> SESSION_DURATION_HOURS,
                           last_activity_at |-> 0,
                           revoked |-> FALSE, revoked_at |-> NoTime,
                           revoked_reason |-> "" ] }
    /\ auth_role_assignments = { [ id |-> 1, user_id |-> 1, role |-> "retail",
                                   is_current |-> TRUE, revoked |-> FALSE ] }
    /\ user_profiles = { [ id |-> 1, role |-> "retail" ] }
    /\ auth_audit_log = { AuditRow("signup", 1, ""),
                          AuditRow("session_created", 1, "") }
    /\ now = SESSION_DURATION_HOURS
    /\ calls = 0
    /\ events = 0
    /\ proc = [p \in Procs |-> IdleProc]
    /\ ResolverEmpty
    /\ EnforceEmpty

\* one caller and the operators, on the store of an identity that signed up
SignedUpNext ==
    \/ LoginUser(1)
    \/ LoginCred(1)
    \/ LoginWrong(1)
    \/ LoginReset(1)
    \/ LoginRole(1)
    \/ LoginSession(1)
    \/ LogoutFind(1)
    \/ LogoutRevoke(1)
    \/ ValidateFind(1)
    \/ ValidateTouch(1)
    \/ ValidateUser(1)
    \/ ValidateRole(1)
    \/ Env

SignedUpSpec == SignedUpInit /\ [][SignedUpNext]_vars

\* ======================================================= domain resolver
IsDigit(c) == c \in { "0", "1", "2", "3", "4", "5", "6", "7", "8", "9" }

\* where /:\d+$/ matches: a colon followed by digits, one at least, up to
\* the end of the string
PortStarts(d) ==
    { i \in 1..Len(d) :
        /\ d[i] = ":"
        /\ i < Len(d)
        /\ \A j \in (i + 1)..Len(d) : IsDigit(d[j]) }

\* String.prototype.replace(/:\d+$/, '')
StripPort(d) ==
    IF PortStarts(d) = {}
       THEN d
       ELSE SubSeq(d, 1, (CHOOSE i \in PortStarts(d) : TRUE) - 1)

\* a normalisation that strips the port and keeps the letter case
normalizeDomain_CaseKept(domain) == StripPort(domain)

\* domain.toLowerCase().replace(/:\d+$/, '')
normalizeDomain(domain) == StripPort(toLowerCase(domain))

\* hostHeader.split(':')[0]
FirstField(h) ==
    LET colons == { i \in 1..Len(h) : h[i] = ":" }
    IN  IF colons = {}
           THEN h
           ELSE SubSeq(h, 1, (CHOOSE i \in colons : \A j \in colons : i <= j) - 1)

\* Map.prototype.get / set / delete on a map kept as a set of entries
MapGet(m, k) == { e.value : e \in { x \in m : x.key = k } }
MapSet(m, k, v) == { e \in m : e.key /= k } \cup { [ key |-> k, value |-> v ] }
MapDelete(m, k) == { e \in m : e.key /= k }

\* an entry taken to be live at the instant it expires
CacheLive_Inclusive(expiry) == expiry /= 0 /\ expiry >= now

\* expiry && expiry > Date.now()
CacheLive(expiry) == expiry /= 0 /\ expiry > now

\* a resolver caller that is not inside a call
ResFree(p) == res[p].pc \in { "idle", "done" }

\* process p moves to r after a store call
ResSet(p, r) ==
    /\ r.nfault - res[p].nfault <= MaxEvents - events
    /\ res' = [res EXCEPT ![p] = r]
    /\ events' = events + (r.nfault - res[p].nfault)

\* resolveSiteFromDomain(domain) is called, directly or by
\* resolveSiteFromHostHeader: normalise, getCached (which drops an entry
\* that is not live), return the cached site on a hit
ResolveStart(p) ==
    /\ ResFree(p)
    /\ calls < MaxCalls
    /\ \E h \in Hosts, viaHost \in BOOLEAN :
         LET domain == IF viaHost THEN FirstField(h) ELSE h
             normalizedDomain == normalizeDomain(domain)
             expiry == MapGet(cacheExpiry, normalizedDomain)
             live == \E x \in expiry : CacheLive(x)
             cached == IF live THEN MapGet(cache, normalizedDomain) ELSE {}
             r == [IdleRes EXCEPT !.input = h, !.viaHost = viaHost,
                                  !.normalizedDomain = normalizedDomain,
                                  !.expired = expiry /= {} /\ ~ live]
         IN  /\ cache' = IF live THEN cache ELSE MapDelete(cache, normalizedDomain)
             /\ cacheExpiry' = IF live THEN cacheExpiry
                                       ELSE MapDelete(cacheExpiry, normalizedDomain)
             /\ res' = [res EXCEPT ![p] =
                          IF cached /= {}
                             THEN [r EXCEPT !.pc = "done", !.ret = "value",
                                            !.site = cached, !.hit = TRUE]
                             ELSE [r EXCEPT !.pc = "resolve_rpc"]]
    /\ calls' = calls + 1
    /\ UNCHANGED << tables, proc, enforceVars, now, events, sites, site_domains >>

\* a lookup of the domain that does not filter on its status
ActiveDomain_AnyStatus(d) == d.status \in DomainStatuses

\* resolve_site_from_domain: AND status = 'active'
ActiveDomain(d) == d.status = "active"

\* rpc resolve_site_from_domain(p_domain): the site_id of the active row of
\* the domain; an error is thrown and caught (null), no data returns null
ResolveRpc(p) ==
    /\ res[p].pc = "resolve_rpc"
    /\ \E ok \in Answers :
         LET rows == { d \in site_domains :
                         d.domain = res[p].normalizedDomain /\ ActiveDomain(d) }
             data == IF ok /\ rows /= {}
                        THEN (CHOOSE d \in rows : TRUE).site_id
                        ELSE NoId
             r == [res[p] EXCEPT !.nfault = @ + Cost(ok), !.looked = TRUE,
                                 !.data = data]
         IN  IF data = NoId
                THEN ResSet(p, [r EXCEPT !.pc = "done", !.ret = "null"])
                ELSE ResSet(p, [r EXCEPT !.pc = "resolve_site"])
    /\ UNCHANGED << tables, proc, enforceVars, now, calls, sites, site_domains,
                    cache, cacheExpiry >>

\* select id, name, slug from sites where id = data; .single(); the error
\* is not read; return null without a row
ResolveSite(p) ==
    /\ res[p].pc = "resolve_site"
    /\ \E ok \in Answers :
         LET siteData == IF ok THEN maybeSingle({ t \in sites : t.id = res[p].data })
                               ELSE {}
             r == [res[p] EXCEPT !.nfault = @ + Cost(ok), !.siteData = siteData]
         IN  IF siteData = {}
                THEN ResSet(p, [r EXCEPT !.pc = "done", !.ret = "null"])
                ELSE ResSet(p, [r EXCEPT !.pc = "resolve_domain"])
    /\ UNCHANGED << tables, proc, enforceVars, now, calls, sites, site_domains,
                    cache, cacheExpiry >>

\* select domain, is_primary from site_domains where site_id = data and
\* domain = normalizedDomain; .single(); neither the error nor a missing
\* row is checked; compose the ResolvedSite from the site and the domain
\* row, if any (isPrimary: domainData?.is_primary || false), setCached,
\* return
ResolveDomain(p) ==
    /\ res[p].pc = "resolve_domain"
    /\ \E ok \in Answers :
         LET domainData ==
                 IF ok THEN maybeSingle({ d \in site_domains :
                                 /\ d.site_id = res[p].data
                                 /\ d.domain = res[p].normalizedDomain })
                       ELSE {}
             siteData == CHOOSE t \in res[p].siteData : TRUE
             resolved ==
                 [ siteId |-> siteData.id, siteName |-> siteData.name,
                   siteSlug |-> siteData.slug, domain |-> res[p].normalizedDomain,
                   isPrimary |-> \E d \in domainData : d.is_primary ]
         IN  /\ cache' = MapSet(cache, res[p].normalizedDomain, resolved)
             /\ cacheExpiry' = MapSet(cacheExpiry, res[p].normalizedDomain,
                                      now + CACHE_TTL)
             /\ ResSet(p, [res[p] EXCEPT !.nfault = @ + Cost(ok),
                                         !.domainData = domainData,
                                         !.pc = "done", !.ret = "value",
                                         !.site = { resolved }])
    /\ UNCHANGED << tables, proc, enforceVars, now, calls, sites, site_domains >>

\* clearCache(): both maps are emptied; a call that is between two of its
\* awaits goes on with what it has read (cleared records that it has read
\* from the store before this clear)
ClearCache ==
    /\ cache' = {}
    /\ cacheExpiry' = {}
    /\ res' = [p \in Procs |->
                 IF ~ ResFree(p) /\ res[p].looked
                    THEN [res[p] EXCEPT !.cleared = TRUE]
                    ELSE res[p]]
    /\ UNCHANGED << tables, proc, enforceVars, now, calls, events, sites, site_domains >>

\* an administrator changes the status of a domain
SetDomainStatus ==
    /\ events < MaxEvents
    /\ events' = events + 1
    /\ \E d \in site_domains, st \in DomainStatuses :
         /\ st /= d.status
         /\ site_domains' = (site_domains \ { d }) \cup { [d EXCEPT !.status = st] }
    /\ UNCHANGED << tables, proc, enforceVars, now, calls, sites, cache, cacheExpiry, res >>

\* an administrator removes a domain
RemoveDomain ==
    /\ events < MaxEvents
    /\ events' = events + 1
    /\ \E d \in site_domains : site_domains' = site_domains \ { d }
    /\ UNCHANGED << tables, proc, enforceVars, now, calls, sites, cache, cacheExpiry, res >>

\* an administrator removes a site: site_domains.site_id ON DELETE CASCADE
RemoveSite ==
    /\ events < MaxEvents
    /\ events' = events + 1
    /\ \E t \in sites :
         /\ sites' = sites \ { t }
         /\ site_domains' = { d \in site_domains : d.site_id /= t.id }
    /\ UNCHANGED << tables, proc, enforceVars, now, calls, cache, cacheExpiry, res >>

\* Date.now() advances
ResolverTick ==
    /\ events < MaxEvents
    /\ events' = events + 1
    /\ \E d \in { CACHE_TTL - 1, CACHE_TTL, CACHE_TTL + 1 } : now' = now + d
    /\ UNCHANGED << tables, proc, enforceVars, calls, resolverVars >>


\* a store with one site and at most one domain row for it
ResolverInit ==
    /\ AuthInit
    /\ EnforceEmpty
    /\ sites = SiteRows
    /\ \E known \in SUBSET BaseDomains :
       \E is_primary \in BOOLEAN, status \in DomainStatuses :
           site_domains =
               { [ site_id |-> t.id, domain |-> d,
                   is_primary |-> is_primary, status |-> status ] :
                 t \in SiteRows, d \in known }
    /\ ResolverIdle

\* one caller of the resolver, a call starting when the previous one has
\* returned, while the clock advances and administrators act
ResolverNext ==
    \/ ResolveStart(1)
    \/ ResolveRpc(1)
    \/ ResolveSite(1)
    \/ ResolveDomain(1)
    \/ ClearCache
    \/ SetDomainStatus
    \/ RemoveDomain
    \/ RemoveSite
    \/ ResolverTick

ResolverSpec == ResolverInit /\ [][ResolverNext]_vars

\* ================================================== enforcement service
\* SQL's three-valued AND over "true", "false" and "null"
And3(a, b) ==
    IF a = "false" \/ b = "false" THEN "false"
    ELSE IF a = "null" \/ b = "null" THEN "null"
    ELSE "true"

Bool3(b) == IF b THEN "true" ELSE "false"

\* check_vendor_can_go_live(p_vendor_id): v_is_approved stays NULL without
\* a vendor row; the subscription and the agreement are tested with EXISTS
check_vendor_can_go_live(vendorId) ==
    LET rows == { v \in vendors : v.id = vendorId }
        v_is_approved ==
            IF rows = {} THEN "null"
            ELSE Bool3((CHOOSE v \in rows : TRUE).status = "approved")
        v_has_active_subscription ==
            \E sub \in vendor_subscriptions :
                /\ sub.vendor_id = vendorId
                /\ sub.status = "active"
                /\ sub.billing_period_end > now
        v_has_signed_agreement ==
            \E a \in vendor_agreements :
                a.vendor_id = vendorId /\ a.status = "signed"
    IN  And3(And3(v_is_approved, Bool3(v_has_active_subscription)),
             Bool3(v_has_signed_agreement))

\* an enforcement caller that is not inside a call
EnfFree(p) == enf[p].pc \in { "idle", "done" }

\* process p moves to r after a store call
EnfSet(p, r) ==
    LET failed == r.nfault - (IF EnfFree(p) THEN 0 ELSE enf[p].nfault)
    IN  /\ failed <= MaxEvents - events
        /\ enf' = [enf EXCEPT ![p] = IF EnfFree(p) THEN [r EXCEPT !.began = events]
                                                  ELSE r]
        /\ events' = events + failed
        /\ calls' = IF EnfFree(p) THEN calls + 1 ELSE calls

\* the catch of checkVendorCanGoLive
GoLiveError(r) ==
    [r EXCEPT !.canGoLive = FALSE, !.isApproved = FALSE,
              !.hasActiveSubscription = FALSE, !.hasSignedAgreement = FALSE,
              !.blockers = << "Error checking status" >>]

\* the loop of getVisibleProductsForSite over the products selected: the
\* vendor of the next product is checked, or the list is returned
ListLoop(r) ==
    IF r.rows = << >>
       THEN [r EXCEPT !.pc = "done", !.ret = "list"]
       ELSE [r EXCEPT !.pc = "golive_rpc", !.vendorId = Head(r.rows).vendor_id]

\* checkVendorCanGoLive returns: to its caller, or into
\* checkProductVisibilityOnSite, which decides on vendorStatus.canGoLive, or
\* into the loop of getVisibleProductsForSite, which pushes the product
GoLiveReturn(r) ==
    CASE r.op = "checkVendorCanGoLive" -> [r EXCEPT !.pc = "done"]
      [] r.op = "checkProductVisibilityOnSite" ->
            IF ~ r.canGoLive
               THEN [r EXCEPT !.pc = "done", !.isVisible = FALSE,
                              !.reason = << "Vendor cannot go live" >> \o r.blockers]
               ELSE [r EXCEPT !.pc = "done", !.isVisible = TRUE, !.reason = << >>]
      [] r.op = "getVisibleProductsForSite" ->
            ListLoop([r EXCEPT !.visibleProducts =
                                   IF r.canGoLive THEN Append(@, Head(r.rows).id) ELSE @,
                               !.rows = Tail(@)])
      [] r.op = "enforceProductVisibility" ->
            IF ~ r.canGoLive
               THEN [r EXCEPT !.pc = "enforce_archive"]
               ELSE [r EXCEPT !.pc = "done", !.ret = "void"]
      [] r.op = "validatePromotion" ->
            LET errors == IF r.canGoLive
                             THEN r.errors
                             ELSE Append(r.errors, "Promotion vendor is not active")
            IN  [r EXCEPT !.pc = "done", !.errors = errors,
                          !.isValid = \E promo \in r.promo : promo.status = "active",
                          !.canBeUsed = errors = << >>]

\* rpc check_vendor_can_go_live; an error is thrown and caught
GoLiveRpc(r, ok) ==
    IF ok THEN [r EXCEPT !.data = check_vendor_can_go_live(r.vendorId),
                         !.pc = "golive_vendor"]
          ELSE GoLiveReturn(GoLiveError([r EXCEPT !.nfault = @ + 1]))

\* checkVendorCanGoLive(vendorId) is called
GoLiveStart(p) ==
    /\ EnfFree(p)
    /\ calls < MaxCalls
    /\ \E v \in VendorIds, ok \in Answers :
         EnfSet(p, GoLiveRpc([IdleEnf EXCEPT !.op = "checkVendorCanGoLive",
                                             !.vendorId = v], ok))
    /\ UNCHANGED << tables, proc, resolverVars, promoTables, vendorTables, catalogTables, now >>

\* checkVendorCanGoLive(product.vendor_id) called by
\* checkProductVisibilityOnSite
GoLiveNested(p) ==
    /\ enf[p].pc = "golive_rpc"
    /\ \E ok \in Answers : EnfSet(p, GoLiveRpc(enf[p], ok))
    /\ UNCHANGED << tables, proc, resolverVars, promoTables, vendorTables, catalogTables, now >>

\* select status from vendors where id = vendorId; .single(); the error is
\* not read
GoLiveVendor(p) ==
    /\ enf[p].pc = "golive_vendor"
    /\ \E ok \in Answers :
         LET vendor == IF ok THEN maybeSingle({ v \in vendors : v.id = enf[p].vendorId })
                             ELSE {}
         IN  EnfSet(p, [enf[p] EXCEPT !.vendor = vendor, !.nfault = @ + Cost(ok),
                                      !.pc = "golive_subscription"])
    /\ UNCHANGED << tables, proc, resolverVars, promoTables, vendorTables, catalogTables, now >>

\* select status, billing_period_end from vendor_subscriptions where
\* vendor_id = vendorId and status = 'active'; .maybeSingle()
GoLiveSubscription(p) ==
    /\ enf[p].pc = "golive_subscription"
    /\ \E ok \in Answers :
         LET subscription ==
                 IF ok THEN maybeSingle({ sub \in vendor_subscriptions :
                                 /\ sub.vendor_id = enf[p].vendorId
                                 /\ sub.status = "active" })
                       ELSE {}
         IN  EnfSet(p, [enf[p] EXCEPT !.subscription = subscription,
                                      !.nfault = @ + Cost(ok),
                                      !.pc = "golive_agreement"])
    /\ UNCHANGED << tables, proc, resolverVars, promoTables, vendorTables, catalogTables, now >>

\* !!subscription && new Date(subscription.billing_period_end) > new Date()
HasActiveSubscription(subscription) ==
    \E sub \in subscription : sub.billing_period_end > now

\* the blockers pushed, in the order of the three tests
Blockers(isApproved, hasActiveSubscription, hasSignedAgreement) ==
    (IF ~ isApproved THEN << "Vendor not approved" >> ELSE << >>)
        \o (IF ~ hasActiveSubscription THEN << "No active subscription" >> ELSE << >>)
        \o (IF ~ hasSignedAgreement THEN << "No signed agreement" >> ELSE << >>)

\* select status from vendor_agreements where vendor_id = vendorId and
\* status = 'signed'; .maybeSingle(); then derive the flags and the
\* blockers; canGoLive is the answer of the rpc
GoLiveAgreement(p) ==
    /\ enf[p].pc = "golive_agreement"
    /\ \E ok \in Answers :
         LET agreement ==
                 IF ok THEN maybeSingle({ a \in vendor_agreements :
                                 /\ a.vendor_id = enf[p].vendorId
                                 /\ a.status = "signed" })
                       ELSE {}
             isApproved == \E v \in enf[p].vendor : v.status = "approved"
             hasActiveSubscription == HasActiveSubscription(enf[p].subscription)
             hasSignedAgreement == agreement /= {}
         IN  EnfSet(p, GoLiveReturn(
                 [enf[p] EXCEPT !.agreement = agreement, !.nfault = @ + Cost(ok),
                                !.canGoLive = enf[p].data = "true",
                                !.isApproved = isApproved,
                                !.hasActiveSubscription = hasActiveSubscription,
                                !.hasSignedAgreement = hasSignedAgreement,
                                !.blockers = Blockers(isApproved, hasActiveSubscription,
                                                      hasSignedAgreement)]))
    /\ UNCHANGED << tables, proc, resolverVars, promoTables, vendorTables, catalogTables, now >>

\* a function that reports a product without a visibility row as visible
is_product_visible_on_site_DefaultVisible(productId, siteId) ==
    LET rows == { x \in site_product_visibility :
                    x.product_id = productId /\ x.site_id = siteId }
    IN  \A x \in rows : x.visible

\* is_product_visible_on_site(p_product_id, p_site_id): true for a product
\* that does not enforce site visibility (the test is skipped when the
\* product is missing: NOT NULL is not true), else the visible flag of the
\* row for the product and the site, false without a row
is_product_visible_on_site(productId, siteId) ==
    LET prods == { x \in products : x.id = productId }
        rows == { x \in site_product_visibility :
                    x.product_id = productId /\ x.site_id = siteId }
    IN  IF \E x \in prods : ~ x.enforce_site_visibility
           THEN TRUE
           ELSE \E x \in rows : x.visible

\* checkProductVisibilityOnSite(productId, siteId) is called: the rpc; an
\* error is thrown and caught; not visible without data
VisibilityStart(p) ==
    /\ EnfFree(p)
    /\ calls < MaxCalls
    /\ \E productId \in { 1 }, siteId \in SiteIds, ok \in Answers :
         LET r == [IdleEnf EXCEPT !.op = "checkProductVisibilityOnSite",
                                  !.productId = productId, !.siteId = siteId,
                                  !.nfault = Cost(ok)]
             data == is_product_visible_on_site(productId, siteId)
         IN  IF ~ ok
                THEN EnfSet(p, [r EXCEPT !.pc = "done", !.isVisible = FALSE,
                                         !.reason = << "Error checking visibility" >>])
                ELSE IF ~ data
                        THEN EnfSet(p, [r EXCEPT !.pc = "done", !.visible = "false",
                                           !.isVisible = FALSE,
                                           !.reason = << "Product not visible on this site" >>])
                        ELSE EnfSet(p, [r EXCEPT !.pc = "visibility_product",
                                                 !.visible = "true"])
    /\ UNCHANGED << tables, proc, resolverVars, promoTables, vendorTables, catalogTables, now >>

\* select status, vendor_id from products where id = productId; .single();
\* not visible unless the product is active (product?.status === 'active');
\* else check its vendor
VisibilityProduct(p) ==
    /\ enf[p].pc = "visibility_product"
    /\ \E ok \in Answers :
         LET product == IF ok THEN maybeSingle({ x \in products :
                                       x.id = enf[p].productId })
                              ELSE {}
             r == [enf[p] EXCEPT !.product = product, !.nfault = @ + Cost(ok)]
         IN  IF ~ (\E x \in product : x.status = "active")
                THEN EnfSet(p, [r EXCEPT !.pc = "done", !.isVisible = FALSE,
                                         !.reason = << "Product is not active" >>])
                ELSE EnfSet(p, [r EXCEPT !.pc = "golive_rpc",
                                         !.vendorId = (CHOOSE x \in product : TRUE).vendor_id])
    /\ UNCHANGED << tables, proc, resolverVars, promoTables, vendorTables, catalogTables, now >>

\* .limit(limit) without an order: any limit of the rows, all of them if
\* they are fewer
LimitRows(rows, limit) ==
    { x \in SUBSET rows :
        Cardinality(x) = IF Cardinality(rows) < limit THEN Cardinality(rows)
                                                     ELSE limit }

\* the orders in which the store can return the rows
Orders(rows) ==
    { f \in [1..Cardinality(rows) -> rows] :
        \A i, j \in 1..Cardinality(rows) : f[i] = f[j] => i = j }

\* getVisibleProductsForSite(siteId, limit) is called: select product_id
\* from site_product_visibility where site_id = siteId and visible = true
\* limit limit; [] without data
ListStart(p) ==
    /\ EnfFree(p)
    /\ calls < MaxCalls
    /\ \E siteId \in SiteIds, limit \in { 1, 2 }, ok \in Answers :
         LET r == [IdleEnf EXCEPT !.op = "getVisibleProductsForSite",
                                  !.siteId = siteId, !.limit = limit,
                                  !.nfault = Cost(ok)]
             matching == { x \in site_product_visibility :
                             x.site_id = siteId /\ x.visible }
         IN  IF ~ ok
                THEN EnfSet(p, [r EXCEPT !.pc = "done", !.ret = "list"])
                ELSE \E visibilityRecords \in LimitRows(matching, limit) :
                        EnfSet(p, [r EXCEPT !.pc = "list_products",
                                            !.productIds =
                                                { x.product_id : x \in visibilityRecords }])
    /\ UNCHANGED << tables, proc, resolverVars, promoTables, vendorTables, catalogTables, now >>

\* a selection of the candidates that forgets the status of the product
ActiveAmong_AnyStatus(productIds) ==
    { x \in products : x.id \in productIds }

\* select id, vendor_id from products where id in productIds and status =
\* 'active'
ActiveAmong(productIds) ==
    { x \in products : x.id \in productIds /\ x.status = "active" }

\* the products of the candidates; [] without data; then the loop
ListProducts(p) ==
    /\ enf[p].pc = "list_products"
    /\ \E ok \in Answers :
         LET r == [enf[p] EXCEPT !.nfault = @ + Cost(ok)]
         IN  IF ~ ok
                THEN EnfSet(p, [r EXCEPT !.pc = "done", !.ret = "list"])
                ELSE \E rows \in Orders(ActiveAmong(enf[p].productIds)) :
                        EnfSet(p, ListLoop([r EXCEPT !.rows = rows]))
    /\ UNCHANGED << tables, proc, resolverVars, promoTables, vendorTables, catalogTables, now >>

\* new Date(subscription.billing_period_end) < new Date()
PeriodElapsed(subscription) ==
    \E sub \in subscription : sub.billing_period_end < now

\* enforceVendorSubscription(vendorId) is called: select * from
\* vendor_subscriptions where vendor_id = vendorId and status = 'active';
\* .maybeSingle(); true if the row's period has not elapsed
BillingStart(p) ==
    /\ EnfFree(p)
    /\ calls < MaxCalls
    /\ \E vendorId \in VendorIds, ok \in Answers :
         LET subscription ==
                 IF ok THEN maybeSingle({ sub \in vendor_subscriptions :
                                 /\ sub.vendor_id = vendorId
                                 /\ sub.status = "active" })
                       ELSE {}
             r == [IdleEnf EXCEPT !.op = "enforceVendorSubscription",
                                  !.vendorId = vendorId,
                                  !.subscription = subscription,
                                  !.nfault = Cost(ok)]
         IN  IF subscription = {}
                THEN EnfSet(p, [r EXCEPT !.pc = "billing_archive"])
                ELSE IF PeriodElapsed(subscription)
                        THEN EnfSet(p, [r EXCEPT !.pc = "billing_expire"])
                        ELSE EnfSet(p, [r EXCEPT !.pc = "done", !.ret = "true"])
    /\ UNCHANGED << tables, proc, resolverVars, promoTables, vendorTables, catalogTables, now >>

\* update vendor_subscriptions set status = 'expired' where id =
\* subscription.id; the result is not read
BillingExpire(p) ==
    /\ enf[p].pc = "billing_expire"
    /\ \E ok \in Answers :
         /\ vendor_subscriptions' =
                IF ok THEN { IF sub.id \in { x.id : x \in enf[p].subscription }
                                THEN [sub EXCEPT !.status = "expired"]
                                ELSE sub : sub \in vendor_subscriptions }
                      ELSE vendor_subscriptions
         /\ EnfSet(p, [enf[p] EXCEPT !.pc = "billing_archive",
                                     !.nfault = @ + Cost(ok)])
    /\ UNCHANGED << tables, proc, resolverVars, promoTables, vendors,
                    vendor_agreements, catalogTables, now >>

\* update products set status = 'archived' where vendor_id = vendorId and
\* status = 'active'
ArchiveProducts(vendorId) ==
    { IF x.vendor_id = vendorId /\ x.status = "active"
         THEN [x EXCEPT !.status = "archived"]
         ELSE x : x \in products }

\* archive the vendor's products (the result is not read), return false
BillingArchive(p) ==
    /\ enf[p].pc = "billing_archive"
    /\ \E ok \in Answers :
         /\ products' = IF ok THEN ArchiveProducts(enf[p].vendorId) ELSE products
         /\ EnfSet(p, [enf[p] EXCEPT !.pc = "done", !.ret = "false",
                                     !.nfault = @ + Cost(ok)])
    /\ UNCHANGED << tables, proc, resolverVars, promoTables, vendorTables,
                    site_product_visibility, now >>

\* enforceProductVisibility(productId) is called: select vendor_id from
\* products where id = productId; .single(); return without data; else
\* check the vendor of the product
ProductEnforceStart(p) ==
    /\ EnfFree(p)
    /\ calls < MaxCalls
    /\ \E productId \in { x.id : x \in products } \cup { NewId(products) },
          ok \in Answers :
         LET product == IF ok THEN maybeSingle({ x \in products : x.id = productId })
                              ELSE {}
             r == [IdleEnf EXCEPT !.op = "enforceProductVisibility",
                                  !.productId = productId, !.product = product,
                                  !.nfault = Cost(ok)]
         IN  IF product = {}
                THEN EnfSet(p, [r EXCEPT !.pc = "done", !.ret = "void"])
                ELSE EnfSet(p, [r EXCEPT !.pc = "golive_rpc",
                                         !.vendorId = (CHOOSE x \in product : TRUE).vendor_id])
    /\ UNCHANGED << tables, proc, resolverVars, promoTables, vendorTables, catalogTables, now >>

\* the vendor cannot go live: update products set status = 'archived'
\* where id = productId (the result is not read), return
ProductEnforceArchive(p) ==
    /\ enf[p].pc = "enforce_archive"
    /\ \E ok \in Answers :
         /\ products' =
                IF ok THEN { IF x.id = enf[p].productId
                                THEN [x EXCEPT !.status = "archived"]
                                ELSE x : x \in products }
                      ELSE products
         /\ EnfSet(p, [enf[p] EXCEPT !.pc = "done", !.ret = "void",
                                     !.nfault = @ + Cost(ok)])
    /\ UNCHANGED << tables, proc, resolverVars, promoTables, vendorTables,
                    site_product_visibility, now >>

\* promo.usage_limit && promo.usage_count >= promo.usage_limit: null and 0
\* are falsy
LimitReached(promo) ==
    \E limit \in promo.usage_limit : limit /= 0 /\ promo.usage_count >= limit

\* the errors validatePromotion pushes before it checks the vendor
PromoErrors(promo, siteId, userRole) ==
    (IF promo.status /= "active" THEN << "Promotion is not active" >> ELSE << >>)
        \o (IF \E site \in promo.site_id : site /= siteId
               THEN << "Promotion not valid for this site" >> ELSE << >>)
        \o (IF promo.starts_at > now
               THEN << "Promotion has not started yet" >> ELSE << >>)
        \o (IF \E ends \in promo.ends_at : ends < now
               THEN << "Promotion has expired" >> ELSE << >>)
        \o (IF \E roles \in promo.allowed_roles : userRole \notin roles
               THEN << "Promotion not available for your account type" >> ELSE << >>)
        \o (IF LimitReached(promo)
               THEN << "Promotion usage limit reached" >> ELSE << >>)

\* validatePromotion(promoId, siteId, userRole) is called: select * from
\* promotions where id = promoId; .single(); 'Promotion not found' without
\* data; else the six tests of the row, then the check of its vendor
PromoStart(p) ==
    /\ EnfFree(p)
    /\ calls < MaxCalls
    /\ \E promoId \in PromoIds, siteId \in SiteIds, userRole \in { "retail", "guest" },
          ok \in Answers :
         LET promo == IF ok THEN maybeSingle({ x \in promotions : x.id = promoId })
                            ELSE {}
             r == [IdleEnf EXCEPT !.op = "validatePromotion",
                                  !.promoId = promoId, !.siteId = siteId,
                                  !.userRole = userRole, !.promo = promo,
                                  !.nfault = Cost(ok)]
         IN  IF promo = {}
                THEN EnfSet(p, [r EXCEPT !.pc = "done",
                                         !.errors = << "Promotion not found" >>])
                ELSE LET row == CHOOSE x \in promo : TRUE
                     IN  EnfSet(p, [r EXCEPT !.pc = "golive_rpc",
                                             !.vendorId = row.vendor_id,
                                             !.errors = PromoErrors(row, siteId, userRole)])
    /\ UNCHANGED << tables, proc, resolverVars, promoTables, vendorTables, catalogTables, now >>

\* trackPromoUsage(promoId, orderId, userId, discountAmount) is called:
\* select vendor_id from promotions where id = promoId; .single(); return
\* without data
TrackStart(p) ==
    /\ EnfFree(p)
    /\ calls < MaxCalls
    /\ \E promoId \in PromoIds, orderId \in { 1 }, amount \in { 1, 2 },
          userId \in { NoId } \cup { f.id : f \in user_profiles }, ok \in Answers :
         LET promo == IF ok THEN maybeSingle({ x \in promotions : x.id = promoId })
                            ELSE {}
             r == [IdleEnf EXCEPT !.op = "trackPromoUsage",
                                  !.promoId = promoId, !.orderId = orderId,
                                  !.userId = userId, !.amount = amount,
                                  !.promo = promo, !.nfault = Cost(ok)]
         IN  IF promo = {}
                THEN EnfSet(p, [r EXCEPT !.pc = "done", !.ret = "void"])
                ELSE EnfSet(p, [r EXCEPT !.pc = "track_insert"])
    /\ UNCHANGED << tables, proc, resolverVars, promoTables, vendorTables, catalogTables, now >>

\* promo_usage.promo_id references promotions, user_id is null or
\* references user_profiles
UsageInsertAccepted(promoId, userId) ==
    /\ \E x \in promotions : x.id = promoId
    /\ userId = NoId \/ \E f \in user_profiles : f.id = userId

\* a trigger that leaves total_vendor_cost alone
update_promo_stats_CostForgotten(new) ==
    { IF x.id = new.promo_id
         THEN [x EXCEPT !.usage_count = @ + 1,
                        !.total_discount_given = @ + new.discount_amount]
         ELSE x : x \in promotions }

\* trigger update_promo_stats, after insert on promo_usage, for each row
update_promo_stats(new) ==
    { IF x.id = new.promo_id
         THEN [x EXCEPT !.usage_count = @ + 1,
                        !.total_discount_given = @ + new.discount_amount,
                        !.total_vendor_cost = @ + new.vendor_cost]
         ELSE x : x \in promotions }

\* insert into promo_usage with vendor_cost = discount_amount = the amount;
\* the trigger runs in the insert; the result is not read
TrackInsert(p) ==
    /\ enf[p].pc = "track_insert"
    /\ \E ok \in Answers :
         LET new == [ id |-> NewId(promo_usage),
                      promo_id |-> enf[p].promoId,
                      order_id |-> enf[p].orderId,
                      user_id |-> enf[p].userId,
                      discount_amount |-> enf[p].amount,
                      vendor_cost |-> enf[p].amount ]
         IN  /\ IF ok /\ UsageInsertAccepted(enf[p].promoId, enf[p].userId)
                   THEN /\ promo_usage' = promo_usage \cup { new }
                        /\ promotions' = update_promo_stats(new)
                   ELSE UNCHANGED promoTables
             /\ EnfSet(p, [enf[p] EXCEPT !.pc = "done", !.ret = "void",
                                         !.nfault = @ + Cost(ok)])
    /\ UNCHANGED << tables, proc, resolverVars, vendorTables, catalogTables, now >>

\* an administrator pauses or resumes a promotion
SetPromotionStatus ==
    /\ events < MaxEvents
    /\ events' = events + 1
    /\ \E x \in promotions, st \in PromoStatuses :
         /\ st /= x.status
         /\ promotions' = (promotions \ { x }) \cup { [x EXCEPT !.status = st] }
    /\ UNCHANGED << tables, proc, resolverVars, promo_usage, vendorTables,
                    catalogTables, enf, now, calls >>

\* an administrator approves or suspends a vendor
SetVendorStatus ==
    /\ events < MaxEvents
    /\ events' = events + 1
    /\ \E v \in vendors, st \in VendorStatuses :
         /\ st /= v.status
         /\ vendors' = (vendors \ { v }) \cup { [v EXCEPT !.status = st] }
    /\ UNCHANGED << tables, proc, resolverVars, promoTables, vendor_subscriptions,
                    vendor_agreements, catalogTables, enf, now, calls >>

\* billing cancels an active subscription
CancelSubscription ==
    /\ events < MaxEvents
    /\ events' = events + 1
    /\ \E sub \in vendor_subscriptions :
         /\ sub.status = "active"
         /\ vendor_subscriptions' =
                (vendor_subscriptions \ { sub })
                    \cup { [sub EXCEPT !.status = "cancelled"] }
    /\ UNCHANGED << tables, proc, resolverVars, promoTables, vendors, vendor_agreements,
                    catalogTables, enf, now, calls >>

\* a signed agreement expires
ExpireAgreement ==
    /\ events < MaxEvents
    /\ events' = events + 1
    /\ \E a \in vendor_agreements :
         /\ a.status = "signed"
         /\ vendor_agreements' =
                (vendor_agreements \ { a }) \cup { [a EXCEPT !.status = "expired"] }
    /\ UNCHANGED << tables, proc, resolverVars, promoTables, vendors, vendor_subscriptions,
                    catalogTables, enf, now, calls >>

\* a vendor publishes or archives a product
SetProductStatus ==
    /\ events < MaxEvents
    /\ events' = events + 1
    /\ \E x \in products, st \in { "active", "archived" } :
         /\ st /= x.status
         /\ products' = (products \ { x }) \cup { [x EXCEPT !.status = st] }
    /\ UNCHANGED << tables, proc, resolverVars, promoTables, vendorTables,
                    site_product_visibility, enf, now, calls >>

\* an administrator shows or hides a product on a site
SetVisible ==
    /\ events < MaxEvents
    /\ events' = events + 1
    /\ \E x \in site_product_visibility :
         site_product_visibility' =
             (site_product_visibility \ { x }) \cup { [x EXCEPT !.visible = ~ @] }
    /\ UNCHANGED << tables, proc, resolverVars, promoTables, vendorTables, products,
                    enf, now, calls >>

\* new Date() and now() advance
EnforceTick ==
    /\ events < MaxEvents
    /\ events' = events + 1
    /\ \E d \in { 1 } : now' = now + d
    /\ UNCHANGED << tables, proc, resolverVars, enforceVars, calls >>

\* any vendor store with an active product shown on the site, or any
\* catalogue with an approved vendor holding one active subscription and
\* one signed agreement.  VendorStores: at most one vendor, up to two of
\* the subscriptions and up to two of the agreements.  CatalogStores: at
\* most one product, of vendor 1, with or without a visibility row for site 1
EnforceInit ==
    LET SubscriptionRows ==
            { [ id |-> 1, vendor_id |-> 1, status |-> "active", billing_period_end |-> 1 ],
              [ id |-> 2, vendor_id |-> 1, status |-> "active", billing_period_end |-> 2 ],
              [ id |-> 3, vendor_id |-> 1, status |-> "active", billing_period_end |-> 0 ],
              [ id |-> 4, vendor_id |-> 1, status |-> "cancelled", billing_period_end |-> 2 ] }
        AgreementRows ==
            { [ id |-> 1, vendor_id |-> 1, status |-> "signed" ],
              [ id |-> 2, vendor_id |-> 1, status |-> "signed" ],
              [ id |-> 3, vendor_id |-> 1, status |-> "pending" ] }
        VendorStores ==
            { [ vendors |-> vs, subscriptions |-> subs, agreements |-> agrs ] :
                vs \in { {} } \cup { { v } : v \in [ id : VendorIds, status : VendorStatuses ] },
                subs \in { x \in SUBSET SubscriptionRows : Cardinality(x) <= 2 },
                agrs \in { x \in SUBSET AgreementRows : Cardinality(x) <= 2 } }
        CatalogStores ==
            { [ products |-> {}, visibility |-> {} ] }
                \cup { [ products |-> { [ id |-> 1, vendor_id |-> 1, status |-> st,
                                          enforce_site_visibility |-> enforce ] },
                         visibility |-> vis ] :
                       st \in { "active", "draft" }, enforce \in BOOLEAN,
                       vis \in { {} } \cup { { [ site_id |-> 1, product_id |-> 1,
                                                  visible |-> b ] } : b \in BOOLEAN } }
    IN
    /\ AuthInit
    /\ ResolverEmpty
    /\ \E store \in VendorStores, catalog \in CatalogStores :
         /\ \/ catalog = [ products |-> { [ id |-> 1, vendor_id |-> 1,
                                            status |-> "active",
                                            enforce_site_visibility |-> TRUE ] },
                           visibility |-> { [ site_id |-> 1, product_id |-> 1,
                                              visible |-> TRUE ] } ]
            \/ store = [ vendors |-> { [ id |-> 1, status |-> "approved" ] },
                         subscriptions |-> { [ id |-> 1, vendor_id |-> 1,
                                               status |-> "active",
                                               billing_period_end |-> 1 ] },
                         agreements |-> { [ id |-> 1, vendor_id |-> 1,
                                            status |-> "signed" ] } ]
         /\ vendors = store.vendors
         /\ vendor_subscriptions = store.subscriptions
         /\ vendor_agreements = store.agreements
         /\ products = catalog.products
         /\ site_product_visibility = catalog.visibility
    /\ promotions = {}
    /\ promo_usage = {}
    /\ enf = [p \in Procs |-> IdleEnf]

\* one caller of the enforcement service, a call starting when the previous
\* one has returned, while the clock advances and the store is written
EnforceNext ==
    \/ GoLiveStart(1)
    \/ GoLiveNested(1)
    \/ GoLiveVendor(1)
    \/ GoLiveSubscription(1)
    \/ GoLiveAgreement(1)
    \/ VisibilityStart(1)
    \/ VisibilityProduct(1)
    \/ SetVendorStatus
    \/ CancelSubscription
    \/ ExpireAgreement
    \/ SetProductStatus
    \/ SetVisible
    \/ EnforceTick

EnforceSpec == EnforceInit /\ [][EnforceNext]_vars

\* two vendors with a signed agreement each, vendor 2 with a current
\* subscription, vendor 1 with none, one that is current, one whose period
\* ends at the first instant, or two that are current; product 1 of vendor
\* 1 and product 2 of vendor 2, active or draft, with a visibility row on
\* site 1 or, for product 1, without one; product 1 enforces site
\* visibility or not
ListingInit ==
    /\ AuthInit
    /\ ResolverEmpty
    /\ \E st \in VendorStatuses :
         vendors = { [ id |-> 1, status |-> "approved" ], [ id |-> 2, status |-> st ] }
    /\ \E subs \in
            { {},
              { [ id |-> 1, vendor_id |-> 1, status |-> "active", billing_period_end |-> 1 ] },
              { [ id |-> 3, vendor_id |-> 1, status |-> "active", billing_period_end |-> 0 ] },
              { [ id |-> 1, vendor_id |-> 1, status |-> "active", billing_period_end |-> 1 ],
                [ id |-> 2, vendor_id |-> 1, status |-> "active", billing_period_end |-> 2 ] } } :
         vendor_subscriptions =
             subs \cup { [ id |-> 5, vendor_id |-> 2, status |-> "active",
                           billing_period_end |-> 2 ] }
    /\ vendor_agreements = { [ id |-> 1, vendor_id |-> 1, status |-> "signed" ],
                             [ id |-> 4, vendor_id |-> 2, status |-> "signed" ] }
    /\ \E st1, st2 \in { "active", "draft" }, enforce1 \in BOOLEAN :
         products = { [ id |-> 1, vendor_id |-> 1, status |-> st1,
                        enforce_site_visibility |-> enforce1 ],
                      [ id |-> 2, vendor_id |-> 2, status |-> st2,
                        enforce_site_visibility |-> TRUE ] }
    /\ \E shown1 \in { {}, { TRUE } }, shown2 \in { { TRUE }, { FALSE } } :
         site_product_visibility =
             { [ site_id |-> 1, product_id |-> 1, visible |-> b ] : b \in shown1 }
                 \cup { [ site_id |-> 1, product_id |-> 2, visible |-> b ] : b \in shown2 }
    /\ promotions = {}
    /\ promo_usage = {}
    /\ enf = [p \in Procs |-> IdleEnf]

ListingNext ==
    \/ ListStart(1)
    \/ ListProducts(1)
    \/ GoLiveNested(1)
    \/ GoLiveVendor(1)
    \/ GoLiveSubscription(1)
    \/ GoLiveAgreement(1)
    \/ BillingStart(1)
    \/ BillingExpire(1)
    \/ BillingArchive(1)
    \/ ProductEnforceStart(1)
    \/ ProductEnforceArchive(1)
    \/ SetProductStatus
    \/ SetVisible
    \/ EnforceTick

ListingSpec == ListingInit /\ [][ListingNext]_vars

\* what happens to promotions from outside a call
PromoEnv ==
    \/ SetPromotionStatus
    \/ EnforceTick

\* the usage records the counters of a new store go with: count records of
\* one cent each
UsageRecords(count) ==
    { [ id |-> i, promo_id |-> 1, order_id |-> 1, user_id |-> NoId,
        discount_amount |-> 1, vendor_cost |-> 1 ] : i \in 1..count }

\* promotion 1 of vendor 1: active or paused; for any site, site 1 or site
\* 2; started or starting later; without end or ending at the first instant;
\* for any role or for retail; without a limit or limited to 0 or 1 uses;
\* used never or once.  Vendor 1 is approved or suspended and holds a
\* current subscription and a signed agreement.
PromoInit ==
    /\ AuthInit
    /\ ResolverEmpty
    /\ \E st \in VendorStatuses : vendors = { [ id |-> 1, status |-> st ] }
    /\ vendor_subscriptions = { [ id |-> 1, vendor_id |-> 1, status |-> "active",
                                  billing_period_end |-> 2 ] }
    /\ vendor_agreements = { [ id |-> 1, vendor_id |-> 1, status |-> "signed" ] }
    /\ products = {}
    /\ site_product_visibility = {}
    /\ \E status \in PromoStatuses, site_id \in { {}, { 1 }, { 2 } },
          starts_at \in { 0, 2 }, ends_at \in { {}, { 0 } },
          allowed_roles \in { {}, { { "retail" } } },
          usage_limit \in { {}, { 0 }, { 1 } }, usage_count \in { 0, 1 } :
         /\ promotions = { [ id |-> 1, vendor_id |-> 1, site_id |-> site_id,
                             status |-> status, starts_at |-> starts_at,
                             ends_at |-> ends_at, allowed_roles |-> allowed_roles,
                             usage_limit |-> usage_limit, usage_count |-> usage_count,
                             total_discount_given |-> usage_count,
                             total_vendor_cost |-> usage_count ] }
         /\ promo_usage = UsageRecords(usage_count)
    /\ enf = [p \in Procs |-> IdleEnf]

PromoNext ==
    \/ PromoStart(1)
    \/ GoLiveNested(1)
    \/ GoLiveVendor(1)
    \/ GoLiveSubscription(1)
    \/ GoLiveAgreement(1)
    \/ PromoEnv

PromoSpec == PromoInit /\ [][PromoNext]_vars

\* promotion 1 of vendor 1, active or paused, used never or once
UsageInit ==
    /\ AuthInit
    /\ ResolverEmpty
    /\ vendors = { [ id |-> 1, status |-> "approved" ] }
    /\ vendor_subscriptions = {}
    /\ vendor_agreements = {}
    /\ products = {}
    /\ site_product_visibility = {}
    /\ \E status \in PromoStatuses, usage_count \in { 0, 1 } :
         /\ promotions = { [ id |-> 1, vendor_id |-> 1, site_id |-> {},
                             status |-> status, starts_at |-> 0,
                             ends_at |-> {}, allowed_roles |-> {},
                             usage_limit |-> { 1 }, usage_count |-> usage_count,
                             total_discount_given |-> usage_count,
                             total_vendor_cost |-> usage_count ] }
         /\ promo_usage = UsageRecords(usage_count)
    /\ enf = [p \in Procs |-> IdleEnf]

UsageNext ==
    \/ TrackStart(1)
    \/ TrackInsert(1)
    \/ PromoEnv

UsageSpec == UsageInit /\ [][UsageNext]_vars

\* a caller that redeems a promotion: trackPromoUsage(promoId, ...) is
\* called by a caller whose validatePromotion(promoId, ...) has returned
\* canBeUsed = true
RedeemTrack(p) ==
    /\ enf[p].op = "validatePromotion"
    /\ enf[p].pc = "done"
    /\ enf[p].canBeUsed
    /\ TrackStart(p)
    /\ enf'[p].promoId = enf[p].promoId

\* promotion 1 of vendor 1, active, limited to one use and not used yet;
\* vendor 1 can go live; caller 2 has not called, or its
\* validatePromotion(1, 1, 'retail') has just returned canBeUsed = true
RedeemInit ==
    LET promo == [ id |-> 1, vendor_id |-> 1, site_id |-> {},
                   status |-> "active", starts_at |-> 0,
                   ends_at |-> {}, allowed_roles |-> {},
                   usage_limit |-> { 1 }, usage_count |-> 0,
                   total_discount_given |-> 0, total_vendor_cost |-> 0 ]
        vendor == [ id |-> 1, status |-> "approved" ]
        subscription == [ id |-> 1, vendor_id |-> 1, status |-> "active",
                          billing_period_end |-> 2 ]
        agreement == [ id |-> 1, vendor_id |-> 1, status |-> "signed" ]
        validated == [IdleEnf EXCEPT
                         !.pc = "done", !.op = "validatePromotion",
                         !.promoId = 1, !.siteId = 1, !.userRole = "retail",
                         !.promo = { promo }, !.vendorId = 1, !.data = "true",
                         !.vendor = { vendor }, !.subscription = { subscription },
                         !.agreement = { agreement },
                         !.canGoLive = TRUE, !.isApproved = TRUE,
                         !.hasActiveSubscription = TRUE,
                         !.hasSignedAgreement = TRUE,
                         !.isValid = TRUE, !.canBeUsed = TRUE]
    IN  /\ AuthInit
        /\ ResolverEmpty
        /\ vendors = { vendor }
        /\ vendor_subscriptions = { subscription }
        /\ vendor_agreements = { agreement }
        /\ products = {}
        /\ site_product_visibility = {}
        /\ promotions = { promo }
        /\ promo_usage = {}
        /\ \E other \in { IdleEnf, validated } :
              enf = [p \in Procs |-> IF p = 2 THEN other ELSE IdleEnf]

\* callers that validate and redeem, their calls overlapping
RedeemNext ==
    \/ \E p \in Procs :
          \/ PromoStart(p)
          \/ GoLiveNested(p)
          \/ GoLiveVendor(p)
          \/ GoLiveSubscription(p)
          \/ GoLiveAgreement(p)
          \/ RedeemTrack(p)
          \/ TrackInsert(p)
    \/ PromoEnv

RedeemSpec == RedeemInit /\ [][RedeemNext]_vars

\* ================================================================ claims
\* process p starts a call of operation o in this step
Started(p, o) ==
    /\ Free(p)
    /\ calls' = calls + 1
    /\ proc'[p].op = o
    /\ \A q \in Procs \ { p } : proc'[q] = proc[q]

\* every store call of p's call so far was answered
Answered(r) == r.nfault = 0

\* ---------------------------------------------------------------------
\* C1: in every reachable state, under any interleaving of overlapping
\* signup and changeRole calls, an identity has at most one role row with
\* is_current = true and revoked = false.
C1_OneCurrentRole ==
    \A uid \in UserIds : Cardinality(CurrentRoles(uid)) <= 1

\* two role changes for one identity overlap, both past their insert
C1_Witness ==
    \E p, q \in Procs :
        /\ p /= q
        /\ proc[p].pc = "change_profile" /\ proc[q].pc = "change_profile"
        /\ proc[p].userId = proc[q].userId
        /\ Cardinality(CurrentRoles(proc[p].userId)) = 1

\* ---------------------------------------------------------------------
\* C2: the revoke and the insert of changeRole are one atomic step: for an
\* identity that has a current role when changeRole starts, no overlapping
\* validateSession or login reads the ledger and finds no current role
\* (so none resolves the identity to 'guest' during the change).
C2_NoGuestDuringChange ==
    \A p \in Procs : ~ proc[p].sawChange

\* ---------------------------------------------------------------------
\* C3: validateSession(token) returns null for every session whose
\* expires_at is before the current time, revoked or not.
C3_ExpiredIsInvalid ==
    [][ \A p \in Procs, s \in auth_sessions :
            ( /\ Started(p, "validateSession")
              /\ proc'[p].token = s.token
              /\ s.expires_at < now )
            => proc'[p].pc = "done" /\ proc'[p].ret = "null" ]_vars

\* a validateSession whose store call was answered returned null for a
\* session that is expired and not revoked
C3_Witness ==
    \E p \in Procs, s \in auth_sessions :
        /\ proc[p].op = "validateSession" /\ proc[p].pc = "done"
        /\ proc[p].ret = "null" /\ Answered(proc[p])
        /\ proc[p].token = s.token
        /\ ~ s.revoked /\ s.expires_at < now

\* ---------------------------------------------------------------------
\* C4: Expired and Revoked are terminal: no step of signup, login, logout,
\* validateSession or changeRole (nor the clock) takes a session that is
\* revoked or expired back to a session that is neither, and every
\* validateSession that starts on such a session returns null.
Dead(t) ==
    \E s \in auth_sessions : s.token = t /\ (s.revoked \/ s.expires_at < now)

C4_TerminalStates ==
    [][ /\ \A t \in Tokens : Dead(t) => Dead(t)'
        /\ \A p \in Procs, t \in Tokens :
              ( Started(p, "validateSession") /\ proc'[p].token = t /\ Dead(t) )
              => proc'[p].pc = "done" /\ proc'[p].ret = "null" ]_vars

\* a validateSession returned null for a session that was revoked and has
\* expired since
C4_Witness ==
    \E p \in Procs, s \in auth_sessions :
        /\ proc[p].op = "validateSession" /\ proc[p].pc = "done"
        /\ proc[p].ret = "null" /\ Answered(proc[p])
        /\ proc[p].token = s.token
        /\ s.revoked /\ s.revoked_at < now /\ s.expires_at < now

\* ---------------------------------------------------------------------
\* C5: for the token of an existing session, logout(token) (its store calls
\* answered) returns true, leaves the session revoked with reason
\* 'User logout' and a 'logout' audit event recorded; a validateSession of
\* the token that starts after that logout returned yields null.
C5_LogoutRevokes ==
    [][ \A p \in Procs :
          /\ ( /\ Started(p, "logout")
               /\ Answered(proc'[p])
               /\ \E s \in auth_sessions : s.token = proc'[p].token )
             => proc'[p].pc = "logout_revoke"
          /\ ( /\ proc[p].pc = "logout_revoke"
               /\ proc'[p].pc = "done"
               /\ Answered(proc'[p]) )
             => /\ proc'[p].ret = "true"
                /\ \E s \in auth_sessions' :
                      /\ s.token = proc[p].token
                      /\ s.revoked /\ s.revoked_reason = "User logout"
                      /\ AuditRow("logout", s.user_id, "") \in auth_audit_log'
          /\ ( /\ proc[p].op = "logout" /\ proc[p].pc = "done"
               /\ proc[p].ret = "true" /\ Answered(proc[p])
               /\ Started(p, "validateSession")
               /\ proc'[p].token = proc[p].token )
             => proc'[p].pc = "done" /\ proc'[p].ret = "null" ]_vars

\* a validateSession returned null for a session that a logout revoked
\* while it was still within its lifetime
C5_Witness ==
    \E p \in Procs, s \in auth_sessions :
        /\ proc[p].op = "validateSession" /\ proc[p].pc = "done"
        /\ proc[p].ret = "null" /\ Answered(proc[p])
        /\ proc[p].token = s.token
        /\ s.revoked /\ s.revoked_reason = "User logout" /\ s.expires_at > now
        /\ AuditRow("logout", s.user_id, "") \in auth_audit_log

\* ---------------------------------------------------------------------
\* C6: login with the right password for a credential whose locked_until
\* is set and in the future fails, creates no session, leaves
\* failed_attempts as it is, compares no password and (the audit insert
\* answered) records login_failed with reason account_locked.
C6_LockedLoginFails ==
    [][ \A p \in Procs, c \in auth_credentials :
            ( /\ proc[p].pc = "login_cred"
              /\ proc'[p].pc /= "login_cred"
              /\ proc'[p].nfault = proc[p].nfault
              /\ \E u \in proc[p].user : u.id = c.user_id
              /\ c.locked_until /= NoTime /\ c.locked_until > now
              /\ hashPassword(proc[p].password, c.password_salt) = c.password_hash )
            => /\ proc'[p].pc = "done" /\ proc'[p].ret = "null"
               /\ proc'[p].passwordHash = << >>
               /\ proc'[p].created = NoToken
               /\ auth_sessions' = auth_sessions
               /\ auth_credentials' = auth_credentials
               /\ AuditRow("login_failed", c.user_id, "account_locked")
                      \in auth_audit_log' ]_vars

\* a login with the right password has failed on a credential that is locked
C6_Witness ==
    \E p \in Procs, c \in auth_credentials :
        /\ proc[p].op = "login" /\ proc[p].pc = "done" /\ proc[p].ret = "null"
        /\ Answered(proc[p])
        /\ c \in proc[p].cred
        /\ c.locked_until > now
        /\ hashPassword(proc[p].password, c.password_salt) = c.password_hash
        /\ AuditRow("login_failed", c.user_id, "account_locked") \in auth_audit_log

\* ---------------------------------------------------------------------
\* C7: for an active, unlocked identity and calls that do not overlap
\* (their store calls answered), a login with a wrong password fails and
\* raises failed_attempts by exactly 1, so that N of them in a row raise it
\* by N; a login with the right password succeeds and sets it to 0.
RightPassword(r, c) == hashPassword(r.password, c.password_salt) = c.password_hash

C7_FailedAttempts ==
    [][ \A p \in Procs, c \in auth_credentials :
          ( /\ \E u \in proc[p].user : u.id = c.user_id
            /\ proc'[p].nfault = proc[p].nfault /\ Answered(proc[p]) )
          => /\ ( /\ proc[p].pc = "login_cred" /\ proc'[p].pc /= "login_cred"
                  /\ ~ (c.locked_until /= NoTime /\ c.locked_until > now) )
                => proc'[p].pc = IF RightPassword(proc[p], c)
                                    THEN "login_reset" ELSE "login_wrong"
             /\ ( proc[p].pc = "login_wrong" /\ proc'[p].pc /= "login_wrong" )
                => /\ proc'[p].pc = "done" /\ proc'[p].ret = "null"
                   /\ \E d \in auth_credentials' :
                         /\ d.user_id = c.user_id
                         /\ d.failed_attempts = c.failed_attempts + 1
             /\ ( proc[p].pc = "login_reset" /\ proc'[p].pc /= "login_reset" )
                => /\ proc'[p].pc = "login_role"
                   /\ \E d \in auth_credentials' :
                         d.user_id = c.user_id /\ d.failed_attempts = 0
             /\ ( proc[p].pc = "login_role" /\ proc'[p].pc /= "login_role" )
                => proc'[p].pc = "login_session"
             /\ ( proc[p].pc = "login_session" /\ proc'[p].pc /= "login_session" )
                => /\ proc'[p].pc = "done" /\ proc'[p].ret = "value"
                   /\ proc'[p].retUser = c.user_id ]_vars

\* a login with the right password has succeeded and reset a counter that
\* a login with a wrong password had raised
C7_Witness ==
    \E p \in Procs, c \in auth_credentials :
        /\ proc[p].op = "login" /\ proc[p].pc = "done" /\ proc[p].ret = "value"
        /\ Answered(proc[p])
        /\ c.user_id = proc[p].retUser /\ c.failed_attempts = 0
        /\ \E snapshot \in proc[p].cred : snapshot.failed_attempts > 0

\* ---------------------------------------------------------------------
\* C8: e-mail uniqueness: no two identities have the same lower-cased
\* e-mail, also after overlapping signups with the same e-mail in
\* different letter case; and a signup gets past the creation of its
\* identity only if no other identity has its lower-cased e-mail, so it
\* fails when one exists, whatever that identity's status.
PastIdentity(r) ==
    /\ r.op = "signup"
    /\ \/ r.pc \in { "signup_cred", "signup_role", "signup_profile", "signup_session" }
       \/ r.pc = "done" /\ r.ret = "value"

C8_EmailUnique ==
    /\ \A u, v \in auth_users :
          toLowerCase(u.email) = toLowerCase(v.email) => u = v
    /\ \A p \in Procs :
          PastIdentity(proc[p])
          => \A u \in auth_users :
                toLowerCase(u.email) = toLowerCase(proc[p].email)
                => u \in proc[p].user

\* two signups with the same e-mail in different letter case overlap: both
\* passed the existence check, one has inserted its identity
C8_Witness ==
    \E p, q \in Procs :
        /\ proc[p].op = "signup" /\ proc[q].op = "signup"
        /\ proc[p].email /= proc[q].email
        /\ toLowerCase(proc[p].email) = toLowerCase(proc[q].email)
        /\ proc[p].pc = "signup_cred" /\ proc[p].user \subseteq auth_users
        /\ proc[q].pc = "signup_user"

\* ---------------------------------------------------------------------
\* C9: signup is all-or-nothing: whenever signup returns null, the store
\* holds no identity (hence no credential, role, profile or session) that
\* this call created, so that a later signup with the same e-mail is not
\* rejected because of the failed attempt.
C9_SignupAllOrNothing ==
    \A p \in Procs :
        ( proc[p].op = "signup" /\ proc[p].pc = "done" /\ proc[p].ret = "null" )
        => \A u \in proc[p].user : u \notin auth_users

\* ---------------------------------------------------------------------
\* C10: whenever signup or login returns a result, the result carries a
\* session that was persisted for the returned identity, is not revoked
\* and expires in the future; a failure to create the session fails the
\* call.
C10_ResultHasSession ==
    [][ \A p \in Procs :
            ( /\ proc[p].pc \in { "signup_session", "login_session" }
              /\ proc'[p].pc = "done" /\ proc'[p].ret = "value" )
            => /\ proc'[p].retSession /= NoToken
               /\ \E s \in auth_sessions' :
                     /\ s.token = proc'[p].retSession
                     /\ s.user_id = proc'[p].retUser
                     /\ ~ s.revoked
                     /\ s.expires_at > now' ]_vars

\* ---------------------------------------------------------------------
\* C11: while an identity's status is not 'active', the identity check of
\* validateSession returns null for each of its sessions, also one that is
\* neither revoked nor expired, and a login for the identity fails without
\* creating a session.
C11_InactiveIdentity ==
    [][ \A p \in Procs, u \in auth_users :
          u.status /= "active"
          => /\ ( /\ proc[p].pc = "validate_user"
                  /\ proc'[p].pc /= "validate_user"
                  /\ \E s \in proc[p].session : s.user_id = u.id )
                => proc'[p].pc = "done" /\ proc'[p].ret = "null"
             /\ ( /\ Started(p, "login")
                  /\ toLowerCase(proc'[p].email) = u.email )
                => /\ proc'[p].pc = "done" /\ proc'[p].ret = "null"
                   /\ proc'[p].created = NoToken
                   /\ auth_sessions' = auth_sessions ]_vars

\* a validateSession returned null at its identity check for a session that
\* is neither revoked nor expired, of an identity that is not active
C11_Witness ==
    \E p \in Procs, s \in auth_sessions, u \in auth_users :
        /\ proc[p].op = "validateSession" /\ proc[p].pc = "done"
        /\ proc[p].ret = "null" /\ Answered(proc[p])
        /\ proc[p].token = s.token /\ proc[p].session /= {}
        /\ ~ s.revoked /\ s.expires_at >= now
        /\ u.id = s.user_id /\ u.status /= "active"

\* ---------------------------------------------------------------------
\* C12: a failing audit insert never changes the outcome of signup, login,
\* logout or changeRole: whenever a step of a call awaits logAuditEvent,
\* the same step with the audit insert answered and with the audit insert
\* failing leads to the same result of the call, the same locals and the
\* same state of every table other than the audit log.
NonAudit ==
    << auth_users, auth_credentials, auth_sessions, auth_role_assignments,
       user_profiles >>

\* the locals of a call without the account of its audit inserts
StripAudit(r) == [r EXCEPT !.nfault = r.nfault - r.afault, !.afault = 0]

\* audit inserts that failed before this step of p's call
AuditFailedBefore(p) == IF Free(p) THEN 0 ELSE proc[p].afault

\* this step is a step of p's call that awaits logAuditEvent
AuditedStep(p) ==
    /\ \A q \in Procs \ { p } : proc'[q] = proc[q]
    /\ IF Free(p) THEN calls' = calls + 1 /\ proc'[p].naudit > 0
                  ELSE proc'[p].naudit > proc[p].naudit

C12_AuditFailureSwallowed ==
    [][ \A p \in Procs :
          AuditedStep(p)
          => \A failed \in 0..1 :
                ( events' - (proc'[p].afault - AuditFailedBefore(p)) + failed
                      <= MaxEvents )
                => \A outcome \in { << NonAudit', StripAudit(proc'[p]), calls' >> } :
                      ENABLED ( /\ Call(p)
                                /\ proc'[p].afault = AuditFailedBefore(p) + failed
                                /\ << NonAudit', StripAudit(proc'[p]), calls' >>
                                       = outcome ) ]_vars

\* a logout whose audit insert failed has returned true and revoked the
\* session
C12_Witness ==
    \E p \in Procs, s \in auth_sessions :
        /\ proc[p].op = "logout" /\ proc[p].pc = "done" /\ proc[p].ret = "true"
        /\ proc[p].afault = 1 /\ proc[p].nfault = 1
        /\ s.token = proc[p].token /\ s.revoked
        /\ AuditRow("logout", s.user_id, "") \notin auth_audit_log

\* ---------------------------------------------------------------------
\* C13: the failure result of login tells AccountLocked from
\* InvalidCredentials and the failure result of signup tells AlreadyExists
\* from its other failures: two failed calls of the same operation that
\* failed for different reasons return different values.
FailedCall(r) ==
    /\ r.op \in { "signup", "login" }
    /\ r.pc = "done" /\ r.ret /= "value"

C13_TypedFailures ==
    \A p, q \in Procs :
        ( /\ FailedCall(proc[p]) /\ FailedCall(proc[q])
          /\ proc[p].op = proc[q].op
          /\ proc[p].cause /= proc[q].cause )
        => proc[p].ret /= proc[q].ret

\* ---------------------------------------------------------------------
\* C14: resolve lower-cases its input and strips a trailing ':<digits>'
\* port: a call on a registered name written in capitals and followed by
\* ':' and a port works on the lower-case name, consults and fills the cache
\* entry of the lower-case name, and has the outcome that a call on the
\* lower-case name has in the same state.
ResStarted(p) ==
    /\ ResFree(p)
    /\ calls' = calls + 1
    /\ res'[p].pc /= "idle"

C14_Normalised ==
    [][ \A p \in Procs, d \in BaseDomains, port \in Ports :
          /\ ( ResStarted(p) /\ res'[p].input = WithPort(MixedCase(d), port) )
             => /\ res'[p].normalizedDomain = d
                /\ \A outcome \in { << [res'[p] EXCEPT !.input = d, !.viaHost = FALSE],
                                      cache', cacheExpiry' >> } :
                      ENABLED ( /\ ResolveStart(p)
                                /\ res'[p].input = d /\ ~ res'[p].viaHost
                                /\ << res'[p], cache', cacheExpiry' >> = outcome )
          /\ ( /\ res[p].input = WithPort(MixedCase(d), port)
               /\ res[p].pc = "resolve_domain" /\ res'[p].pc = "done" )
             => /\ MapGet(cache', d) = res'[p].site
                /\ \A site \in res'[p].site : site.domain = d ]_vars

\* a call on the name in capitals with a port was served from the cache
\* entry of the lower-case name
C14_Witness ==
    \E p \in Procs, d \in BaseDomains, port \in Ports :
        /\ res[p].pc = "done" /\ res[p].input = WithPort(MixedCase(d), port)
        /\ res[p].hit /\ res[p].ret = "value"
        /\ res[p].site = MapGet(cache, d)
        /\ \A site \in res[p].site : site.domain = d

\* ---------------------------------------------------------------------
\* C15: a resolve call performs the lookup only if the cache holds no entry
\* younger than the TTL for the normalised domain: a call that starts while
\* such an entry exists returns it without a lookup and leaves the cache as
\* it is; a call that starts without one, or at or after the expiry of the
\* entry, performs the lookup, and for a registered active domain (store
\* calls answered) goes through the chain and stores the result with the
\* expiry now + TTL.
YoungEntry(nd) ==
    /\ \E x \in MapGet(cacheExpiry, nd) : x > now
    /\ MapGet(cache, nd) /= {}

C15_CacheWithinTtl ==
    [][ \A p \in Procs :
          /\ ResStarted(p)
             => IF YoungEntry(res'[p].normalizedDomain)
                   THEN /\ res'[p].pc = "done" /\ res'[p].ret = "value"
                        /\ res'[p].site = MapGet(cache, res'[p].normalizedDomain)
                        /\ ~ res'[p].looked
                        /\ cache' = cache /\ cacheExpiry' = cacheExpiry
                   ELSE /\ res'[p].pc = "resolve_rpc"
                        /\ MapGet(cacheExpiry', res'[p].normalizedDomain) = {}
          /\ ( res[p].pc = "resolve_rpc" /\ res'[p].pc /= res[p].pc )
             => /\ res'[p].looked
                /\ ( /\ res'[p].nfault = res[p].nfault
                     /\ \E d \in site_domains :
                           /\ d.domain = res[p].normalizedDomain
                           /\ d.status = "active" )
                   => res'[p].pc = "resolve_site"
          /\ ( /\ res[p].pc = "resolve_site" /\ res'[p].pc /= res[p].pc
               /\ res'[p].nfault = res[p].nfault
               /\ \E t \in sites : t.id = res[p].data )
             => res'[p].pc = "resolve_domain"
          /\ ( res[p].pc = "resolve_domain" /\ res'[p].pc /= res[p].pc )
             => /\ res'[p].pc = "done" /\ res'[p].ret = "value"
                /\ MapGet(cache', res[p].normalizedDomain) = res'[p].site
                /\ MapGet(cacheExpiry', res[p].normalizedDomain)
                       = { now + CACHE_TTL } ]_vars

\* a call that found the entry of an earlier call expired has performed the
\* lookup again and refreshed the entry
C15_Witness ==
    \E p \in Procs :
        /\ res[p].pc = "done" /\ res[p].ret = "value"
        /\ res[p].expired /\ res[p].looked /\ res[p].nfault = 0
        /\ now >= CACHE_TTL
        /\ MapGet(cacheExpiry, res[p].normalizedDomain) = { now + CACHE_TTL }

\* ---------------------------------------------------------------------
\* C16 as stated: a resolve call made while the record of its domain has
\* status pending or disabled returns null, also when the domain was
\* resolved earlier while it was active: the call does not return a site
\* when it starts, and its lookup returns null.
C16_InactiveIsNull ==
    [][ \A p \in Procs, d \in site_domains :
          ( d.status /= "active" )
          => /\ ( /\ ResStarted(p)
                  /\ d.domain = res'[p].normalizedDomain
                  /\ res'[p].pc = "done" )
                => res'[p].ret = "null"
             /\ ( /\ res[p].pc = "resolve_rpc" /\ res'[p].pc /= res[p].pc
                  /\ d.domain = res[p].normalizedDomain )
                => res'[p].pc = "done" /\ res'[p].ret = "null" ]_vars

\* C16 as amended: a resolve call that finds no unexpired cache entry for
\* the normalised domain performs the lookup, and the lookup returns null
\* and caches nothing when the record has status pending or disabled at
\* that time.
C16_InactiveIsNullOnLookup ==
    [][ \A p \in Procs, d \in site_domains :
          ( d.status /= "active" )
          => /\ ( /\ ResStarted(p)
                  /\ d.domain = res'[p].normalizedDomain
                  /\ ~ YoungEntry(res'[p].normalizedDomain) )
                => res'[p].pc = "resolve_rpc"
             /\ ( /\ res[p].pc = "resolve_rpc" /\ res'[p].pc /= res[p].pc
                  /\ d.domain = res[p].normalizedDomain )
                => /\ res'[p].pc = "done" /\ res'[p].ret = "null"
                   /\ cache' = cache /\ cacheExpiry' = cacheExpiry ]_vars

\* a lookup whose store call was answered has returned null for a domain
\* whose record is not active, after an earlier call
C16_Witness ==
    \E p \in Procs, d \in site_domains :
        /\ res[p].pc = "done" /\ res[p].ret = "null"
        /\ res[p].looked /\ res[p].nfault = 0
        /\ d.domain = res[p].normalizedDomain /\ d.status /= "active"
        /\ calls >= 2 /\ events >= 1

\* ---------------------------------------------------------------------
\* C17: resolve returns null and caches nothing whenever a row of the
\* lookup chain is missing: no active row of the domain, no row of the
\* site, or no site_domains row for (site id, normalised domain); it never
\* composes a ResolvedSite with a defaulted isPrimary.
C17_NullWhenRowMissing ==
    [][ \A p \in Procs :
          LET missing ==
                  \/ /\ res[p].pc = "resolve_rpc"
                     /\ ~ \E d \in site_domains :
                            /\ d.domain = res[p].normalizedDomain
                            /\ d.status = "active"
                  \/ /\ res[p].pc = "resolve_site"
                     /\ ~ \E t \in sites : t.id = res[p].data
                  \/ /\ res[p].pc = "resolve_domain"
                     /\ ~ \E d \in site_domains :
                            /\ d.site_id = res[p].data
                            /\ d.domain = res[p].normalizedDomain
          IN  ( missing /\ res'[p].pc /= res[p].pc )
              => /\ res'[p].pc = "done" /\ res'[p].ret = "null"
                 /\ cache' = cache /\ cacheExpiry' = cacheExpiry ]_vars

\* a returned call of op during which no store call failed, no row was
\* written and the clock did not move
QuietResult(op) ==
    /\ enf[1].pc = "done"
    /\ enf[1].op = op
    /\ enf[1].began = events

\* C18: every result of checkVendorCanGoLive is consistent in itself:
\* canGoLive is the conjunction of the three flags, and blockers holds the
\* entries of the false flags, in the order not approved, no subscription,
\* no agreement
C18_ConsistentStatus ==
    QuietResult("checkVendorCanGoLive") =>
        LET r == enf[1]
        IN  /\ r.canGoLive <=> /\ r.isApproved
                               /\ r.hasActiveSubscription
                               /\ r.hasSignedAgreement
            /\ r.blockers =
                   (IF r.isApproved THEN << >> ELSE << "Vendor not approved" >>)
                       \o (IF r.hasActiveSubscription
                              THEN << >> ELSE << "No active subscription" >>)
                       \o (IF r.hasSignedAgreement
                              THEN << >> ELSE << "No signed agreement" >>)

\* C19: checkVendorCanGoLive reports hasActiveSubscription exactly when a
\* subscription of the vendor is active and ends strictly after now, and
\* hasSignedAgreement exactly when an agreement of the vendor is signed,
\* however many rows match
C19_FlagsMatchStore ==
    QuietResult("checkVendorCanGoLive") =>
        LET r == enf[1]
        IN  /\ r.hasActiveSubscription <=>
                   \E sub \in vendor_subscriptions :
                       /\ sub.vendor_id = r.vendorId
                       /\ sub.status = "active"
                       /\ sub.billing_period_end > now
            /\ r.hasSignedAgreement <=>
                   \E a \in vendor_agreements :
                       a.vendor_id = r.vendorId /\ a.status = "signed"

\* a row shows the product of the returned call on its site
ShownBySiteRow(r) ==
    \E x \in site_product_visibility :
        /\ x.product_id = r.productId
        /\ x.site_id = r.siteId
        /\ x.visible

\* the product of the returned call does not enforce site visibility
NotEnforcing(r) ==
    \E x \in products : x.id = r.productId /\ ~ x.enforce_site_visibility

\* the product of the returned call is active
ActiveProduct(r) ==
    \E x \in products : x.id = r.productId /\ x.status = "active"

\* the vendor of the product of the returned call can go live
OwnerCanGoLive(r) ==
    \E x \in products :
        /\ x.id = r.productId
        /\ \E v \in vendors : v.id = x.vendor_id /\ v.status = "approved"
        /\ \E sub \in vendor_subscriptions :
               /\ sub.vendor_id = x.vendor_id
               /\ sub.status = "active"
               /\ sub.billing_period_end > now
        /\ \E a \in vendor_agreements :
               a.vendor_id = x.vendor_id /\ a.status = "signed"

\* the result is visible only under the three conditions, and the reason
\* of a result that is not visible is that of the first condition to fail
VisibilityDecided(r, shown) ==
    /\ r.isVisible => shown /\ ActiveProduct(r) /\ OwnerCanGoLive(r)
    /\ ~ r.isVisible =>
           /\ Len(r.reason) > 0
           /\ r.reason[1] =
                  IF ~ shown THEN "Product not visible on this site"
                  ELSE IF ~ ActiveProduct(r) THEN "Product is not active"
                  ELSE "Vendor cannot go live"
           /\ ~ (shown /\ ActiveProduct(r) /\ OwnerCanGoLive(r))

\* C20: checkProductVisibilityOnSite returns isVisible only if a row of the
\* product and the site has visible = true, the product is active and its
\* vendor can go live, checked in that order, the reason being that of the
\* first condition that fails
C20_VisibleOnlyWithRow ==
    QuietResult("checkProductVisibilityOnSite") =>
        VisibilityDecided(enf[1], ShownBySiteRow(enf[1]))

\* C20, amended: the first condition is that the product does not enforce
\* site visibility or a row of the product and the site has visible = true
C20_VisibleOnlyIfShown ==
    QuietResult("checkProductVisibilityOnSite") =>
        VisibilityDecided(enf[1], NotEnforcing(enf[1]) \/ ShownBySiteRow(enf[1]))

\* a product that does not enforce site visibility and has no row showing
\* it on the site came out visible
C20_Witness ==
    /\ QuietResult("checkProductVisibilityOnSite")
    /\ enf[1].isVisible
    /\ NotEnforcing(enf[1])
    /\ ~ ShownBySiteRow(enf[1])

\* ---------------------------------------------------------------------
\* the store holds what lets the vendor go live
ReadyInStore(vendorId) ==
    /\ \E v \in vendors : v.id = vendorId /\ v.status = "approved"
    /\ \E sub \in vendor_subscriptions :
          /\ sub.vendor_id = vendorId
          /\ sub.status = "active"
          /\ sub.billing_period_end > now
    /\ \E a \in vendor_agreements : a.vendor_id = vendorId /\ a.status = "signed"

\* C21: getVisibleProductsForSite(siteId, limit) returns at most limit
\* product ids, none of them twice, each of a product that a row shows on
\* the site, that is active and whose vendor can go live
C21_ListedAreVisible ==
    QuietResult("getVisibleProductsForSite") =>
        LET r == enf[1]
            ids == r.visibleProducts
        IN  /\ Len(ids) <= r.limit
            /\ \A i, j \in 1..Len(ids) : ids[i] = ids[j] => i = j
            /\ \A i \in 1..Len(ids) :
                  /\ \E x \in site_product_visibility :
                        x.site_id = r.siteId /\ x.product_id = ids[i] /\ x.visible
                  /\ \E x \in products :
                        /\ x.id = ids[i]
                        /\ x.status = "active"
                        /\ ReadyInStore(x.vendor_id)

\* the limit cut the list: two products qualify and one is returned
C21_Witness ==
    /\ QuietResult("getVisibleProductsForSite")
    /\ enf[1].limit = 1
    /\ Len(enf[1].visibleProducts) = 1
    /\ \A x \in products :
          /\ x.status = "active"
          /\ ReadyInStore(x.vendor_id)
          /\ \E y \in site_product_visibility : y.product_id = x.id /\ y.visible

\* ---------------------------------------------------------------------
\* the promotion of the returned call, as the store holds it
StoredPromo(r) == { x \in promotions : x.id = r.promoId }

\* the use of the promotion has reached its limit
UsedUp(promo) == \E limit \in promo.usage_limit : promo.usage_count >= limit

\* the entries of the checks that fail, in the order of the checks
FailingChecks(promo, r) ==
    (IF promo.status /= "active" THEN << "Promotion is not active" >> ELSE << >>)
        \o (IF promo.site_id /= {} /\ promo.site_id /= { r.siteId }
               THEN << "Promotion not valid for this site" >> ELSE << >>)
        \o (IF now < promo.starts_at
               THEN << "Promotion has not started yet" >> ELSE << >>)
        \o (IF promo.ends_at /= {} /\ \A ends \in promo.ends_at : ends < now
               THEN << "Promotion has expired" >> ELSE << >>)
        \o (IF promo.allowed_roles /= {}
                  /\ \A roles \in promo.allowed_roles : r.userRole \notin roles
               THEN << "Promotion not available for your account type" >> ELSE << >>)
        \o (IF UsedUp(promo)
               THEN << "Promotion usage limit reached" >> ELSE << >>)
        \o (IF ~ ReadyInStore(promo.vendor_id)
               THEN << "Promotion vendor is not active" >> ELSE << >>)

\* C22: for a promotion of the store, validatePromotion evaluates all seven
\* checks: errors holds one entry for each check that fails and nothing
\* else, canBeUsed is true exactly when errors is empty, isValid exactly
\* when the status is active
C22_AllChecksReported ==
    QuietResult("validatePromotion") =>
        \A promo \in StoredPromo(enf[1]) :
            /\ enf[1].errors = FailingChecks(promo, enf[1])
            /\ enf[1].canBeUsed <=> enf[1].errors = << >>
            /\ enf[1].isValid <=> promo.status = "active"

\* C23: for a promotion whose usage_limit is set, 0 included, and whose
\* usage_count has reached it, validatePromotion reports 'Promotion usage
\* limit reached' and canBeUsed = false
C23_LimitReached ==
    QuietResult("validatePromotion") =>
        \A promo \in StoredPromo(enf[1]) :
            UsedUp(promo) =>
                /\ \E i \in 1..Len(enf[1].errors) :
                      enf[1].errors[i] = "Promotion usage limit reached"
                /\ ~ enf[1].canBeUsed

\* ---------------------------------------------------------------------
\* the active subscriptions of the vendor
ActiveSubscriptions(vendorId) ==
    { sub \in vendor_subscriptions :
        sub.vendor_id = vendorId /\ sub.status = "active" }

\* C24: enforceVendorSubscription(vendorId), its store calls answering:
\* without an active subscription it goes on to archive the products; with
\* active subscriptions whose periods have all elapsed it goes on to expire
\* the subscription; otherwise it returns true and changes nothing; the
\* step that expires leaves the subscription expired; the step that
\* archives leaves the vendor without an active product, leaves the
\* products of other vendors as they were, and returns false
C24_SubscriptionEnforced ==
    [][ /\ ( /\ EnfFree(1)
             /\ enf'[1].op = "enforceVendorSubscription"
             /\ calls' = calls + 1
             /\ enf'[1].nfault = 0 )
           => LET active == ActiveSubscriptions(enf'[1].vendorId)
              IN  /\ active = {} => enf'[1].pc = "billing_archive"
                  /\ ( /\ active /= {}
                       /\ \A sub \in active : sub.billing_period_end < now )
                        => enf'[1].pc = "billing_expire"
                  /\ ( \E sub \in active : ~ (sub.billing_period_end < now) )
                        => /\ enf'[1].pc = "done"
                           /\ enf'[1].ret = "true"
                           /\ UNCHANGED << vendorTables, catalogTables >>
        /\ ( /\ enf[1].pc = "billing_expire"
             /\ enf'[1].pc = "billing_archive"
             /\ enf'[1].nfault = 0 )
           => \A sub \in enf[1].subscription :
                 \E x \in vendor_subscriptions' :
                    x.id = sub.id /\ x.status = "expired"
        /\ ( /\ enf[1].pc = "billing_archive"
             /\ enf'[1].pc = "done"
             /\ enf'[1].nfault = 0 )
           => /\ enf'[1].ret = "false"
              /\ ~ \E x \in products' :
                     x.vendor_id = enf[1].vendorId /\ x.status = "active"
              /\ \A x \in products :
                     x.vendor_id /= enf[1].vendorId => x \in products' ]_vars

\* ---------------------------------------------------------------------
\* the usage records of a promotion
UsageOf(promoId) == { u \in promo_usage : u.promo_id = promoId }

\* C25: trackPromoUsage(promoId, orderId, userId, amount), its store calls
\* answering: for a promotion of the store the insert step appends one
\* usage record with discount_amount = vendor_cost = amount and raises
\* usage_count by 1 and both totals by amount; for an unknown promoId
\* nothing changes; so usage_count is the number of usage records and
\* total_vendor_cost equals total_discount_given, always
C25_UsageTracked ==
    /\ [] \A promo \in promotions :
             /\ promo.usage_count = Cardinality(UsageOf(promo.id))
             /\ promo.total_vendor_cost = promo.total_discount_given
    /\ [][ /\ ( /\ enf[1].pc = "track_insert"
                /\ enf'[1].pc = "done"
                /\ enf'[1].nfault = 0 )
              => /\ \E u \in promo_usage' \ promo_usage :
                       /\ promo_usage' = promo_usage \cup { u }
                       /\ u.promo_id = enf[1].promoId
                       /\ u.order_id = enf[1].orderId
                       /\ u.discount_amount = enf[1].amount
                       /\ u.vendor_cost = enf[1].amount
                 /\ \A promo \in promotions :
                       IF promo.id = enf[1].promoId
                          THEN [promo EXCEPT
                                  !.usage_count = @ + 1,
                                  !.total_discount_given = @ + enf[1].amount,
                                  !.total_vendor_cost = @ + enf[1].amount]
                                   \in promotions'
                          ELSE promo \in promotions'
                 /\ Cardinality(promotions') = Cardinality(promotions)
           /\ ( /\ EnfFree(1)
                /\ enf'[1].op = "trackPromoUsage"
                /\ calls' = calls + 1
                /\ StoredPromo(enf'[1]) = {} )
              => /\ enf'[1].pc = "done"
                 /\ UNCHANGED promoTables ]_vars

\* a promotion used once before has been used again, for two cents
C25_Witness ==
    /\ QuietResult("trackPromoUsage")
    /\ \E promo \in promotions :
          /\ promo.usage_count = 2
          /\ promo.total_vendor_cost = 3
          /\ Cardinality(UsageOf(promo.id)) = 2

\* ---------------------------------------------------------------------
\* C26: a call of the enforcement service in which a store read failed
\* returns the negative decision: canGoLive = false, isVisible = false, an
\* empty list, canBeUsed = false
C26_FailClosed ==
    ( enf[1].pc = "done" /\ enf[1].nfault > 0 ) =>
        /\ enf[1].op = "checkVendorCanGoLive" => ~ enf[1].canGoLive
        /\ enf[1].op = "checkProductVisibilityOnSite" => ~ enf[1].isVisible
        /\ enf[1].op = "getVisibleProductsForSite" => enf[1].visibleProducts = << >>
        /\ enf[1].op = "validatePromotion" => ~ enf[1].canBeUsed

\* ---------------------------------------------------------------------
\* C27: whenever changeRole(identity, newRole, actor) returns true for an
\* identity that had a current role, every store call having answered,
\* also when calls overlap, this call has inserted the current row with the
\* new role; a call whose insert did not take effect returns false
C27_TrueMeansChanged ==
    [][ \A p \in Procs :
            ( /\ proc[p].pc = "change_profile"
              /\ proc'[p].pc = "done" /\ proc'[p].ret = "true"
              /\ Answered(proc'[p])
              /\ proc[p].hadRole )
            => proc[p].inserted ]_vars

\* ---------------------------------------------------------------------
\* C28: a logout(token) of a session that is revoked already leaves the
\* record of the session (revoked, revoked_at, revoked_reason) as the first
\* logout left it
C28_LogoutIdempotent ==
    [][ ( /\ proc[1].pc = "logout_revoke"
          /\ proc'[1].pc = "done"
          /\ \E s \in auth_sessions : s.token = proc[1].token /\ s.revoked )
        => auth_sessions' = auth_sessions ]_vars

\* ---------------------------------------------------------------------
\* C29: a login or signup that returns a result adds exactly one session,
\* of the returned identity, and leaves every session that existed as it
\* was
C29_OneSessionAdded ==
    [][ ( /\ proc[1].pc \in { "signup_session", "login_session" }
          /\ proc'[1].pc = "done" /\ proc'[1].ret = "value" )
        => /\ auth_sessions \subseteq auth_sessions'
           /\ \E s \in auth_sessions' \ auth_sessions :
                 /\ s.user_id = proc'[1].retUser
                 /\ auth_sessions' = auth_sessions \cup { s } ]_vars

\* ---------------------------------------------------------------------
\* C30: when validateSession returns null, every store call having
\* answered, the session it read is in the store as it was read,
\* last_activity_at included
C30_NullLeavesStore ==
    ( /\ proc[1].op = "validateSession"
      /\ proc[1].pc = "done"
      /\ proc[1].ret = "null"
      /\ Answered(proc[1]) )
    => proc[1].session \subseteq auth_sessions

\* ---------------------------------------------------------------------
\* C31: when a changeRole call for an identity that has a profile
\* completes, no other changeRole for the identity being in flight, no
\* signup having overlapped (every caller's last call is a changeRole that
\* found a current role, or none), no store call having failed and nothing
\* having happened from outside, also when changeRole calls on the identity overlapped, the role of the
\* profile is the role of the current, non-revoked ledger row
InChangeRole(r, uid) ==
    r.op = "changeRole" /\ r.userId = uid /\ r.pc \notin { "idle", "done" }
C31_ProfileFollowsLedger ==
    [][ \A p \in Procs :
            ( /\ proc[p].pc = "change_profile" /\ proc'[p].pc = "done"
              /\ \E f \in user_profiles : f.id = proc[p].userId
              /\ events' = 0
              /\ \A q \in Procs :
                    /\ proc'[q].op \in { "none", "changeRole" }
                    /\ proc'[q].op = "changeRole" => proc'[q].hadRole
                    /\ ~ InChangeRole(proc'[q], proc[p].userId) )
            => \A f \in user_profiles' :
                   f.id = proc[p].userId
                       => \E r \in auth_role_assignments' :
                              /\ r.user_id = f.id /\ r.is_current /\ ~ r.revoked
                              /\ r.role = f.role ]_vars

\* ---------------------------------------------------------------------
\* C32: after a signup and two logins with a wrong password for the
\* identity, each of which found the credential, have all completed,
\* overlapping or not, no store call having failed and nothing having
\* happened from outside, failed_attempts is its initial value 0 plus 2
C32_NoLostMiss ==
    ( /\ events = 0
      /\ calls = 3
      /\ \A q \in Procs : /\ proc[q].op = "login" /\ proc[q].pc = "done"
                          /\ proc[q].password = "wrong"
                          /\ proc[q].cred /= {} )
    => \A c \in auth_credentials : c.failed_attempts = 2

\* ---------------------------------------------------------------------
\* C33: for a promotion with a usage_limit (of 1, so that the limit is
\* tested), when trackPromoUsage is called only by a caller whose
\* validatePromotion for the promotion returned canBeUsed = true, also
\* when the sequences of several callers interleave, usage_count never
\* exceeds usage_limit (no store call having failed, nothing having
\* happened from outside)
C33_LimitKept ==
    events = 0 =>
        \A x \in promotions : \A limit \in x.usage_limit : x.usage_count <= limit

\* ---------------------------------------------------------------------
\* C34: a resolve call that read from the store before clearCache() ran
\* and completes after it, every store call having answered, leaves no
\* entry for its domain in the cache
C34_ClearIsFinal ==
    [][ ( /\ res[1].pc = "resolve_domain" /\ res'[1].pc = "done"
          /\ res[1].cleared
          /\ res'[1].nfault = 0 )
        => MapGet(cache', res[1].normalizedDomain) = {} ]_vars

\* ---------------------------------------------------------------------
\* C35: whatever the active subscription rows of the vendor and whether
\* billing_period_end is before, at or after now, every store call having
\* answered, enforceVendorSubscription returns true exactly if the
\* hasActiveSubscription that checkVendorCanGoLive derives from the same
\* store at the same instant is true
C35_SubscriptionChecksAgree ==
    [][ ( /\ EnfFree(1)
          /\ enf'[1].op = "enforceVendorSubscription"
          /\ enf'[1].nfault = 0 )
        => LET subscription ==
                   maybeSingle({ sub \in vendor_subscriptions :
                                   /\ sub.vendor_id = enf'[1].vendorId
                                   /\ sub.status = "active" })
           IN  ( enf'[1].pc = "done" /\ enf'[1].ret = "true" )
                   <=> HasActiveSubscription(subscription) ]_vars

\* ---------------------------------------------------------------------
\* what checkProductVisibilityOnSite(productId, siteId) returns as
\* isVisible on the store as it is, every store call answering
CheckedVisible(productId, siteId) ==
    /\ is_product_visible_on_site(productId, siteId)
    /\ \E x \in maybeSingle({ y \in products : y.id = productId }) :
          /\ x.status = "active"
          /\ check_vendor_can_go_live(x.vendor_id) = "true"

\* C36: on one store, for a limit that is not less than the number of
\* visibility rows of the site, getVisibleProductsForSite(siteId, limit)
\* returns the id of a product exactly if
\* checkProductVisibilityOnSite(productId, siteId) returns isVisible =
\* true, whether the product enforces site visibility or not
C36_PathsAgree ==
    ( /\ QuietResult("getVisibleProductsForSite")
      /\ Cardinality({ x \in site_product_visibility :
                         x.site_id = enf[1].siteId }) <= enf[1].limit )
    => \A x \in products :
           ( \E i \in 1..Len(enf[1].visibleProducts) :
                 enf[1].visibleProducts[i] = x.id )
               <=> CheckedVisible(x.id, enf[1].siteId)

\* ---------------------------------------------------------------------
\* C37: when a step of enforceVendorSubscription or of
\* enforceProductVisibility archives a product of a vendor with at most
\* one active subscription row, also after a store call of the call has
\* failed, the store shows the violation: the vendor has no active
\* subscription whose period has not elapsed, or, for
\* enforceProductVisibility, the vendor of the product is not approved, has
\* no such subscription or has no signed agreement
C37_ArchivedOnlyOnViolation ==
    [][ ( /\ enf[1].pc \in { "billing_archive", "enforce_archive" }
          /\ \E x \in products' : x.status = "archived" /\ x \notin products
          /\ Cardinality({ sub \in vendor_subscriptions :
                             /\ sub.vendor_id = enf[1].vendorId
                             /\ sub.status = "active" }) <= 1 )
        => IF enf[1].op = "enforceVendorSubscription"
              THEN ~ \E sub \in vendor_subscriptions :
                       /\ sub.vendor_id = enf[1].vendorId
                       /\ sub.status = "active"
                       /\ sub.billing_period_end >= now
              ELSE ~ ReadyInStore(enf[1].vendorId) ]_vars

\* ---------------------------------------------------------------------
\* C38: no step of signup, login, logout, validateSession or changeRole
\* changes the locked_until of a credential, and a credential is created
\* without one; so whatever the number of failed logins, a login with the
\* right password for a credential whose locked_until nobody has set is
\* not refused: it goes on to reset the counter
C38_ServiceNeverLocks ==
    [][ \A p \in Procs :
            proc'[p] /= proc[p] =>
                /\ \A c \in auth_credentials' :
                      IF \E old \in auth_credentials : old.user_id = c.user_id
                         THEN \A old \in auth_credentials :
                                  old.user_id = c.user_id
                                      => c.locked_until = old.locked_until
                         ELSE c.locked_until = NoTime
                /\ ( /\ proc[p].pc = "login_cred"
                     /\ proc'[p].nfault = 0
                     /\ \E c \in auth_credentials :
                           /\ c.user_id \in { u.id : u \in proc[p].user }
                           /\ c.locked_until = NoTime
                           /\ c.password_hash =
                                  hashPassword(proc[p].password, c.password_salt) )
                   => proc'[p].pc = "login_reset" ]_vars

\* a login with the right password has returned a result after a login
\* with a wrong password was counted and audited
C38_Witness ==
    /\ proc[1].op = "login" /\ proc[1].pc = "done" /\ proc[1].ret = "value"
    /\ \E a \in auth_audit_log :
          a.event_type = "login_failed" /\ a.reason = "invalid_password"
    /\ \A c \in auth_credentials : c.locked_until = NoTime
====
